---------------------------- MODULE Spec2Model ----------------------------
(***************************************************************************)
(* The staged audio-extraction pipeline of the backend:                    *)
(*   AudioExtractionService (extractAndCleanAudio, quickExtract,           *)
(*   cleanupTempFiles), YouTubeService (isValidYouTubeUrl, extractVideoId, *)
(*   downloadAudio) and the AudioProcessingService stages it awaits.       *)
(*                                                                         *)
(* A job is one call of extractAndCleanAudio or quickExtract.  Every await *)
(* of the handler is a suspension point: pc[j] names the awaited call of   *)
(* job j that is pending, and one action resumes the job from that await,  *)
(* runs it to the next await (or to its return) and applies the awaited    *)
(* call's effect on the file system.  Jobs interleave at awaits only.      *)
(*                                                                         *)
(* Strings that the code matches with regular expressions (references,     *)
(* source ids) are sequences of one-character strings.                     *)
(***************************************************************************)
EXTENDS Integers, Sequences, FiniteSets, TLC

(***************************************************************************)
(* Bounds of the model.                                                    *)
(***************************************************************************)
\* Date.now() takes the values 0..MaxTime.
MaxTime == 1

\* The calls in flight together: two slots, each runs one job.
Jobs == {1, 2}

(***************************************************************************)
(* References: character sequences.                                        *)
(***************************************************************************)
LitHttp == <<"h","t","t","p",":","/","/">>
LitHttps == <<"h","t","t","p","s",":","/","/">>
LitWww == <<"w","w","w",".">>
LitWatchV == <<"y","o","u","t","u","b","e",".","c","o","m","/","w","a","t","c","h","?","v","=">>
LitShort == <<"y","o","u","t","u",".","b","e","/">>
LitWatch == <<"y","o","u","t","u","b","e",".","c","o","m","/","w","a","t","c","h","?">>
LitV == <<"v","=">>
LitEmbed == <<"y","o","u","t","u","b","e",".","c","o","m","/","e","m","b","e","d","/">>

\* The class [\w-] of the validation patterns.
WordChars ==
  {"a","b","c","d","e","f","g","h","i","j","k","l","m","n","o","p","q","r",
   "s","t","u","v","w","x","y","z",
   "A","B","C","D","E","F","G","H","I","J","K","L","M","N","O","P","Q","R",
   "S","T","U","V","W","X","Y","Z",
   "0","1","2","3","4","5","6","7","8","9","_","-"}

\* The complement of the class [^&\?\/] of the id patterns.
IdStopChars == {"&", "?", "/"}

\* lit occurs in s at position i.
LitAt(s, i, lit) ==
  /\ i >= 1
  /\ i + Len(lit) - 1 <= Len(s)
  /\ \A k \in 1..Len(lit) : s[i + k - 1] = lit[k]

\* The positions a matcher can stand at after one of the literals lits,
\* started from a position of from.
AfterLits(s, from, lits) ==
  {x[1] + Len(x[2]) : x \in {y \in from \X lits : LitAt(s, y[1], y[2])}}

\* The positions after the optional group (lit1|lit2|...)?.
AfterOptional(s, from, lits) == from \cup AfterLits(s, from, lits)

\* The positions after (https?:\/\/)?(www\.)? anchored at the start.
AfterPrefix(s) ==
  AfterOptional(s, AfterOptional(s, {1}, {LitHttp, LitHttps}), {LitWww})

\* [\w-]+ matches at position i.
WordAt(s, i) == i <= Len(s) /\ s[i] \in WordChars

\* /^(https?:\/\/)?(www\.)?(youtube\.com\/watch\?v=|youtu\.be\/)[\w-]+/
MatchesPattern1(s) ==
  \E i \in AfterLits(s, AfterPrefix(s), {LitWatchV, LitShort}) : WordAt(s, i)

\* /^(https?:\/\/)?(www\.)?youtube\.com\/watch\?.*v=[\w-]+/
MatchesPattern2(s) ==
  \E i \in AfterLits(s, AfterPrefix(s), {LitWatch}) :
    \E k \in i..Len(s) : LitAt(s, k, LitV) /\ WordAt(s, k + Len(LitV))

\* A validator with the first pattern only.
isValidFirstPatternOnly(url) == MatchesPattern1(url)

\* YouTubeService.isValidYouTubeUrl: patterns.some(pattern => pattern.test(url)).
isValidYouTubeUrl(url) == MatchesPattern1(url) \/ MatchesPattern2(url)

\* The longest run of characters outside IdStopChars that starts at i.
RECURSIVE IdRun(_, _)
IdRun(s, i) ==
  IF i > Len(s) \/ s[i] \in IdStopChars THEN <<>>
  ELSE <<s[i]>> \o IdRun(s, i + 1)

\* url.match(/(?:lit1|lit2|...)([^&\?\/]+)/): the group of the leftmost match,
\* <<>> when there is no match.
CaptureAfter(s, lits) ==
  LET starts == {x \in (1..Len(s)) \X lits :
                   /\ LitAt(s, x[1], x[2])
                   /\ IdRun(s, x[1] + Len(x[2])) # <<>>}
  IN IF starts = {} THEN <<>>
     ELSE LET first == CHOOSE x \in starts : \A y \in starts : x[1] <= y[1]
          IN IdRun(s, first[1] + Len(first[2]))

\* The null the code returns for a reference without an id.  A captured id
\* is never empty (the group is [^&\?\/]+ and the code tests match[1]).
NullId == <<>>

\* YouTubeService.extractVideoId: the first pattern that matches decides.
extractVideoId(url) ==
  IF CaptureAfter(url, {LitWatchV, LitShort}) # <<>>
  THEN CaptureAfter(url, {LitWatchV, LitShort})
  ELSE IF CaptureAfter(url, {LitEmbed}) # <<>>
  THEN CaptureAfter(url, {LitEmbed})
  ELSE NullId

\* The references the jobs are started with: a short link with id "a", a
\* watch page whose v parameter is not the first one, a short link with no id.
UrlShort == LitShort \o <<"a">>
UrlQuery == LitWatch \o <<"x", "&">> \o LitV \o <<"a">>
UrlNoId == LitShort
JobUrls == {UrlShort, UrlQuery, UrlNoId}

(***************************************************************************)
(* Paths.  A file name is `${videoId}_${timestamp}${suffix}` in a          *)
(* directory; the record keeps the parts.                                  *)
(***************************************************************************)
\* config.tempDir and config.outputDir.
TempDir == "temp"
OutputDir == "output"

\* A template literal prints a null id as the word null.
IdText(videoId) == IF videoId = NullId THEN <<"n","u","l","l">> ELSE videoId

MkPath(d, videoId, timestamp, sfx) ==
  [dir |-> d, id |-> IdText(videoId), ts |-> timestamp, suffix |-> sfx]

rawAudioPath(videoId, timestamp) == MkPath(TempDir, videoId, timestamp, "_raw.wav")
filteredAudioPath(videoId, timestamp) == MkPath(TempDir, videoId, timestamp, "_filtered.wav")
enhancedAudioPath(videoId, timestamp) == MkPath(TempDir, videoId, timestamp, "_enhanced.wav")
quickOutputPathInTemp(videoId, timestamp) == MkPath(TempDir, videoId, timestamp, "_audio.wav")
cleanVoicePath(videoId, timestamp) == MkPath(OutputDir, videoId, timestamp, "_clean_voice.wav")
mp3OutputPath(videoId, timestamp) == MkPath(OutputDir, videoId, timestamp, "_clean_voice.mp3")
quickOutputPath(videoId, timestamp) == MkPath(OutputDir, videoId, timestamp, "_audio.wav")

\* No path: the null of outputFiles.mp3, the missing filePath of a failed step.
NoPath == [dir |-> "none", id |-> <<>>, ts |-> 0, suffix |-> ""]

(***************************************************************************)
(* The stages of extractAndCleanAudio, in the order of the code, and the   *)
(* awaits around them.                                                     *)
(***************************************************************************)
Stages == <<"download", "extract", "noiseReduction", "vocalEnhancement", "mp3Conversion">>
StageSet == {Stages[i] : i \in 1..Len(Stages)}

\* options.cleanupTemp as the caller gave it.
CleanupOptions == {"true", "false", "omitted"}

\* The messages of the errors a collaborator throws or reports.
ErrorMessages == {"", "engine error"}

\* The ids of the models, the formats of ModelFormat and the configurations
\* a caller can pass: modelPath and remoteUrl are optional ("": not given).
ModelIds == {"m1", "m2"}
Formats == {"gguf", "coreml", "pytorch"}
ModelConfigs ==
  [id : ModelIds, format : Formats, modelPath : {"", "path"}, remoteUrl : {"", "url"}]

\* Platform.OS.
Platforms == {"ios", "android"}

\* The names given to the contexts loadLlamaModel creates, in the order
\* they are taken; "none" is no context.
ContextIds == <<"c1", "c2">>

\* The callers of MLService, one call of each in progress at a time: the
\* component that uses the hook, which can have a second call of the hook
\* in progress, and code that calls the service itself.
HookTask == "hook"
HookTasks == {HookTask, "hook2"}
MLTasks == {HookTask, "direct"}
Tasks == HookTasks \cup MLTasks

VARIABLES
  now,        \* Date.now()
  dirs,       \* the directories that exist
  fs,         \* the files that exist
  pc,         \* per job: the await it is suspended at, "idle" or "done"
  kind,       \* per job: "full" (extractAndCleanAudio) or "quick" (quickExtract)
  url,        \* per job: videoUrl
  opt,        \* per job: options.cleanupTemp
  ts,         \* per job: timestamp
  steps,      \* per job: results.steps, in insertion order
  files,      \* per job: results.files
  metadata,   \* per job: what results.metadata / results.audioMetadata hold
  todo,       \* per job: the paths cleanupTempFiles has still to unlink
  calls,      \* history, per job: the collaborator calls it made, in order
  cleanups,   \* history, per job: the path lists it passed to cleanupTempFiles
  unlinks,    \* history, per job: the fs.unlink calls it made and how they ended
  settled,    \* history, per job: how its download, engine and probe calls settled
  api,        \* per job: the endpoint of the request its call serves, or "none"
  resp,       \* per job: the responses sent for that request, in order
  flag,       \* per job: cleanupTemp of the request body
  platform,   \* Platform.OS, "unset" before the application starts
  models,     \* MLService.models: a function from the ids it holds to the type of the entry
  mlpc,       \* per task: the await its MLService call is suspended at, or "idle"
  task,       \* per task: the call in progress
  outcome,    \* history: how the call of MLService that ended in the last step ended, if one did
  contexts,   \* the llama contexts created and not released
  lifecycle,  \* history, per model id: the last lifecycle call that completed without error
  hookLoaded, \* useMLModel: isModelLoaded
  hookError,  \* useMLModel: error ("": null)
  isLoading,  \* useMLModel: isLoading
  isDownloading, \* useMLModel: isDownloading
  hookRun,    \* history: what the last runInference of the hook returned; whether it called MLService
  modelsDir,  \* whether the directory models exists
  modelFiles, \* the files in models: a function from their paths to "partial" or "complete"
  dpc,        \* per task: the await its downloadModel call is suspended at, or "idle"
  dcall,      \* per task: the downloadModel call in progress
  downloaded, \* history: how the downloadModel call that ended in the last step ended, if one did
  upc,        \* the await the call of a storage utility is suspended at, or "idle"
  ucall,      \* the call of a storage utility in progress
  uresult,    \* history: how the storage utility call that ended in the last step ended, if one did
  downloadListeners, \* MLService.downloadListeners: per model id the callbacks, in order; <<>> when no entry
  registrations,     \* history: the calls of onDownloadProgress, in order, and the calls of their unsubscribe
  notified,   \* history: the progress event of the last step, if it was one, and the callbacks it called
  capabilities, \* what getDeviceCapabilities returned last, or NoCapabilities
  recommended,  \* history: the last call of getRecommendedModel, its argument and its result
  result      \* per job: the values the call returned or threw, in order

\* The state of the extraction service and its collaborators.
serviceVars == <<now, dirs, fs, pc, kind, url, opt, ts, steps, files, metadata, todo,
                 calls, cleanups, unlinks, settled, result>>

\* The state of audioController.
apiVars == <<api, resp, flag>>

\* The state of useMLModel.
flagVars == <<isLoading, isDownloading>>
hookVars == <<hookLoaded, hookError, hookRun, flagVars>>

\* The state of MLService and of the hook.
mlVars == <<platform, models, contexts, mlpc, task, outcome, lifecycle, hookVars>>

\* The state of the code that asks for the device and for a model to use.
deviceVars == <<capabilities, recommended>>

\* The state of the model files, of the downloads and of the storage
\* utilities.
fileVars == <<modelsDir, modelFiles>>
downloadVars == <<dpc, dcall>>
utilityVars == <<upc, ucall>>
endedVars == <<downloaded, uresult>>
listenerVars == <<downloadListeners, registrations>>
storageVars == <<fileVars, downloadVars, utilityVars, endedVars, listenerVars, notified>>

\* The state outside the extraction service.
otherVars == <<apiVars, mlVars, deviceVars, storageVars>>

vars == <<serviceVars, otherVars>>

videoIdOf(j) == extractVideoId(url[j])

\* No path; no downloadModel call in progress, none ended in the last step;
\* no storage utility call in progress, none ended in the last step.
NoModelPath == [dir |-> "", name |-> <<>>]
NoDownload ==
  [id |-> "", format |-> "", remoteUrl |-> "",
   existed |-> FALSE, started |-> FALSE, progressed |-> FALSE]
NoDownloaded ==
  [call |-> NoDownload, ok |-> FALSE, error |-> "", path |-> NoModelPath, file |-> "absent"]
NoUtility == [op |-> "none", id |-> "", format |-> "", before |-> FALSE]
NoUtilityResult == [call |-> NoUtility, ok |-> FALSE, exists |-> FALSE, names |-> {}]
NoNotified == [modelId |-> "", calls |-> <<>>, before |-> <<>>, reacted |-> FALSE]

\* getDeviceCapabilities not called yet, getRecommendedModel not called yet.
NoCapabilities == [device |-> "none", physicalMemoryMB |-> 0]
NoRecommendation == [memoryMB |-> 0, model |-> [id |-> "none", requiredMemory |-> 0]]

\* No call in progress, no call ended in the last step.
NoTask == [op |-> "none", id |-> "", format |-> "", context |-> "none"]
NoOutcome == [op |-> "none", id |-> "", ok |-> FALSE, error |-> "", context |-> FALSE]

\* The paths of job j (lines 44-49, 213-214).
Raw(j) == rawAudioPath(videoIdOf(j), ts[j])
Filtered(j) == filteredAudioPath(videoIdOf(j), ts[j])
Enhanced(j) == enhancedAudioPath(videoIdOf(j), ts[j])
CleanVoice(j) == cleanVoicePath(videoIdOf(j), ts[j])
Mp3(j) == mp3OutputPath(videoIdOf(j), ts[j])
QuickOut(j) == quickOutputPath(videoIdOf(j), ts[j])

Init ==
  /\ now = 0
  /\ dirs = {}
  /\ fs = {}
  /\ pc = [j \in Jobs |-> "idle"]
  /\ kind = [j \in Jobs |-> "none"]
  /\ url = [j \in Jobs |-> <<>>]
  /\ opt = [j \in Jobs |-> "omitted"]
  /\ ts = [j \in Jobs |-> 0]
  /\ steps = [j \in Jobs |-> <<>>]
  /\ files = [j \in Jobs |-> {}]
  /\ metadata = [j \in Jobs |-> {}]
  /\ todo = [j \in Jobs |-> <<>>]
  /\ calls = [j \in Jobs |-> <<>>]
  /\ cleanups = [j \in Jobs |-> <<>>]
  /\ unlinks = [j \in Jobs |-> <<>>]
  /\ settled = [j \in Jobs |-> <<>>]
  /\ api = [j \in Jobs |-> "none"]
  /\ resp = [j \in Jobs |-> <<>>]
  /\ flag = [j \in Jobs |-> "omitted"]
  /\ platform = "unset"
  /\ models = <<>>
  /\ contexts = {}
  /\ mlpc = [t \in Tasks |-> "idle"]
  /\ task = [t \in Tasks |-> NoTask]
  /\ outcome = NoOutcome
  /\ lifecycle = [id \in ModelIds |-> "none"]
  /\ hookLoaded = FALSE
  /\ hookError = ""
  /\ isLoading = FALSE
  /\ isDownloading = FALSE
  /\ hookRun = [ret |-> "none", called |-> FALSE]
  /\ modelsDir = FALSE
  /\ modelFiles = <<>>
  /\ dpc = [t \in MLTasks |-> "idle"]
  /\ dcall = [t \in MLTasks |-> NoDownload]
  /\ downloaded = NoDownloaded
  /\ upc = "idle"
  /\ ucall = NoUtility
  /\ uresult = NoUtilityResult
  /\ downloadListeners = [modelId \in ModelIds |-> <<>>]
  /\ registrations = <<>>
  /\ notified = NoNotified
  /\ capabilities = NoCapabilities
  /\ recommended = NoRecommendation
  /\ result = [j \in Jobs |-> <<>>]

(***************************************************************************)
(* Values the handlers build.                                              *)
(***************************************************************************)
\* A collaborator call: its name, the input path and the output path given,
\* and the filter chain the operation gives the engine (none: <<>>).
Call(name, inp, out) == [op |-> name, input |-> inp, output |-> out, filters |-> <<>>]
DirPath(d) == [dir |-> d, id |-> <<>>, ts |-> 0, suffix |-> ""]

\* The AudioProcessingService method that runs a stage.
StageOp(s) ==
  CASE s = "download" -> "downloadAudio"
    [] s = "extract" -> "extractRawAudio"
    [] s = "noiseReduction" -> "applyNoiseReduction"
    [] s = "vocalEnhancement" -> "enhanceVocals"
    [] s = "mp3Conversion" -> "convertFormat"

\* Vocal enhancement reading the extracted file, past the noise reduction.
StageInputSkips(j, s) ==
  CASE s = "download" -> NoPath
    [] s = "extract" -> Raw(j)
    [] s = "noiseReduction" -> Filtered(j)
    [] s = "vocalEnhancement" -> Filtered(j)
    [] s = "mp3Conversion" -> CleanVoice(j)

\* The first argument the handler gives the stage's call.
StageInput(j, s) ==
  CASE s = "download" -> NoPath
    [] s = "extract" -> Raw(j)
    [] s = "noiseReduction" -> Filtered(j)
    [] s = "vocalEnhancement" -> Enhanced(j)
    [] s = "mp3Conversion" -> CleanVoice(j)

\* The output path the handler gives the stage's call.
StageOutput(j, s) ==
  CASE s = "download" -> Raw(j)
    [] s = "extract" -> Filtered(j)
    [] s = "noiseReduction" -> Enhanced(j)
    [] s = "vocalEnhancement" -> CleanVoice(j)
    [] s = "mp3Conversion" -> Mp3(j)

\* The key of results.files a successful stage is recorded under.
FileKey(s) ==
  CASE s = "download" -> "raw"
    [] s = "extract" -> "extracted"
    [] s = "noiseReduction" -> "noiseReduced"
    [] s = "vocalEnhancement" -> "cleanVoice"
    [] s = "mp3Conversion" -> "mp3"

\* The error of the failure result returned when a stage reports failure.
StageError(s) ==
  CASE s = "download" -> "Failed to download audio from YouTube"
    [] s = "extract" -> "Failed to extract raw audio"
    [] s = "noiseReduction" -> "Failed to apply noise reduction"
    [] s = "vocalEnhancement" -> "Failed to enhance vocals"
    [] s = "mp3Conversion" -> "none"

\* The handler going on to vocal enhancement after a failed noise reduction.
NextAfterNoHalt(s, success) ==
  CASE s = "download" -> IF success THEN "extract" ELSE "done"
    [] s = "extract" -> IF success THEN "noiseReduction" ELSE "done"
    [] s = "noiseReduction" -> "vocalEnhancement"
    [] s = "vocalEnhancement" -> IF success THEN "mp3Conversion" ELSE "done"
    [] s = "mp3Conversion" -> "probe"

\* The handler returning a failure when the MP3 conversion fails.
NextAfterMp3Halts(s, success) ==
  CASE s = "download" -> IF success THEN "extract" ELSE "done"
    [] s = "extract" -> IF success THEN "noiseReduction" ELSE "done"
    [] s = "noiseReduction" -> IF success THEN "vocalEnhancement" ELSE "done"
    [] s = "vocalEnhancement" -> IF success THEN "mp3Conversion" ELSE "done"
    [] s = "mp3Conversion" -> IF success THEN "probe" ELSE "done"

\* A handler that calls a failed extract stage again.
NextAfterRetries(s, success) ==
  CASE s = "download" -> IF success THEN "extract" ELSE "done"
    [] s = "extract" -> IF success THEN "noiseReduction" ELSE "extract"
    [] s = "noiseReduction" -> IF success THEN "vocalEnhancement" ELSE "done"
    [] s = "vocalEnhancement" -> IF success THEN "mp3Conversion" ELSE "done"
    [] s = "mp3Conversion" -> "probe"

\* A handler that does not test the download's result.
NextAfterIgnoresDownload(s, success) ==
  CASE s = "download" -> "extract"
    [] s = "extract" -> IF success THEN "noiseReduction" ELSE "done"
    [] s = "noiseReduction" -> IF success THEN "vocalEnhancement" ELSE "done"
    [] s = "vocalEnhancement" -> IF success THEN "mp3Conversion" ELSE "done"
    [] s = "mp3Conversion" -> "probe"

\* Where the handler goes once stage s has reported: the next await, or
\* "done" when it returns.
NextAfter(s, success) ==
  CASE s = "download" -> IF success THEN "extract" ELSE "done"
    [] s = "extract" -> IF success THEN "noiseReduction" ELSE "done"
    [] s = "noiseReduction" -> IF success THEN "vocalEnhancement" ELSE "done"
    [] s = "vocalEnhancement" -> IF success THEN "mp3Conversion" ELSE "done"
    [] s = "mp3Conversion" -> "probe"

(***************************************************************************)
(* Filter chains.  A text is a sequence of pieces; a number put into a     *)
(* template literal becomes its decimal digits.                            *)
(***************************************************************************)
\* config.audio: the parameters the filters take.
Config == [highPassFilter |-> 80, lowPassFilter |-> 8000, silenceThreshold |-> -30]

DigitChars == <<"0", "1", "2", "3", "4", "5", "6", "7", "8", "9">>

\* `${n}` for an integer n.
RECURSIVE Digits(_)
Digits(n) ==
  IF n < 0 THEN <<"-">> \o Digits(-n)
  ELSE IF n < 10 THEN <<DigitChars[n + 1]>>
       ELSE Digits(n \div 10) \o <<DigitChars[(n % 10) + 1]>>

CompandText ==
  <<"compand", "=",
    "attacks=0.3:decays=0.8:points=-80/-80|-45/-15|-27/-9|0/-7|20/-7:soft-knee=6:gain=0:volume=-90:delay=0.2">>

\* The elements of the array audioFilters of applyNoiseReduction.
NoiseFilters(cfg) ==
  << <<"highpass", "=", "f=">> \o Digits(cfg.highPassFilter),
     <<"lowpass", "=", "f=">> \o Digits(cfg.lowPassFilter),
     <<"afftdn", "=", "nf=-25">>,
     CompandText >>

\* A vocal chain that normalizes the loudness before it compresses.
VocalFiltersLoudnessFirst(cfg) ==
  << <<"highpass", "=", "f=">> \o Digits(cfg.highPassFilter),
     <<"lowpass", "=", "f=">> \o Digits(cfg.lowPassFilter),
     <<"afftdn", "=", "nf=-20">>,
     <<"equalizer", "=", "f=3000:width_type=h:width=1000:g=3">>,
     <<"loudnorm", "=", "I=-16:TP=-1.5:LRA=11">>,
     CompandText >>

\* The elements of the array vocalFilters of enhanceVocals.
VocalFilters(cfg) ==
  << <<"highpass", "=", "f=">> \o Digits(cfg.highPassFilter),
     <<"lowpass", "=", "f=">> \o Digits(cfg.lowPassFilter),
     <<"afftdn", "=", "nf=-20">>,
     <<"equalizer", "=", "f=3000:width_type=h:width=1000:g=3">>,
     CompandText,
     <<"loudnorm", "=", "I=-16:TP=-1.5:LRA=11">> >>

\* The template literal silenceFilter of removeSilence.
SilenceFilter(cfg) ==
  <<"silenceremove", "=", "start_periods=1:start_duration=1:start_threshold=">>
  \o Digits(cfg.silenceThreshold) \o <<"dB:detection=peak">> \o <<",">>
  \o <<"silenceremove", "=", "stop_periods=-1:stop_duration=1:stop_threshold=">>
  \o Digits(cfg.silenceThreshold) \o <<"dB:detection=peak">>

\* Array.prototype.join(','): the texts with a comma between them.
RECURSIVE Join(_)
Join(texts) ==
  IF texts = <<>> THEN <<>>
  ELSE IF Len(texts) = 1 THEN texts[1]
       ELSE texts[1] \o <<",">> \o Join(Tail(texts))

\* A chain that takes its cut-off frequency from the job's timestamp.
audioFiltersByTime(j, s) ==
  IF s = "noiseReduction"
  THEN Join(NoiseFilters([Config EXCEPT !.highPassFilter = @ + ts[j]]))
  ELSE IF s = "vocalEnhancement" THEN Join(VocalFilters(Config))
       ELSE <<>>

\* The string stage s of job j gives ffmpeg's audioFilters.
audioFilters(j, s) ==
  IF s = "noiseReduction" THEN Join(NoiseFilters(Config))
  ELSE IF s = "vocalEnhancement" THEN Join(VocalFilters(Config))
       ELSE <<>>

\* The call the handler makes as it enters the await named label.
CallAt(j, label) ==
  IF label \in StageSet
  THEN [Call(StageOp(label), StageInput(j, label), StageOutput(j, label))
          EXCEPT !.filters = audioFilters(j, label)]
  ELSE Call("getAudioMetadata", CleanVoice(j), NoPath)

\* A test that takes every value but true for "no cleanup".
CleanupEnabledIfTrue(o) == o = "true"

\* if (options.cleanupTemp !== false)
CleanupEnabled(o) == o # "false"

\* A cleanup list that also names the final WAV.
CleanupListWithFinal(j) == <<Raw(j), Filtered(j), Enhanced(j), CleanVoice(j)>>

\* The list given to cleanupTempFiles.
CleanupList(j) == <<Raw(j), Filtered(j), Enhanced(j)>>

\* A step result {success, filePath?, error?}.
StepResult(s, ok, path, err) ==
  [stage |-> s, success |-> ok, filePath |-> IF ok THEN path ELSE NoPath,
   error |-> IF ok THEN "" ELSE err]

\* A lookup that finds no recorded file.
FileOrNullAlwaysNull(fileSet, key) == NoPath

\* results.files[key] || null
FileOrNull(fileSet, key) ==
  IF \E f \in fileSet : f.key = key
  THEN (CHOOSE f \in fileSet : f.key = key).path
  ELSE NoPath

\* The returned objects, in one shape: a field the code leaves out is "",
\* <<>>, {}, FALSE or NoPath.
FailureResult(jid, err, det, withResults, stepSeq, fileSet) ==
  [success |-> FALSE, jobId |-> jid, error |-> err, details |-> det,
   hasResults |-> withResults, steps |-> stepSeq, files |-> fileSet,
   videoId |-> NullId, metadata |-> {}, wav |-> NoPath, mp3 |-> NoPath]

SuccessResult(jid, vid, meta, wavPath, mp3Path) ==
  [success |-> TRUE, jobId |-> jid, error |-> "", details |-> "",
   hasResults |-> FALSE, steps |-> <<>>, files |-> {},
   videoId |-> vid, metadata |-> meta, wav |-> wavPath, mp3 |-> mp3Path]

(***************************************************************************)
(* How a handler leaves an action: it goes on to another await (making the *)
(* call it awaits), returns a value, or its catch block returns one.       *)
(***************************************************************************)
Continue(j, label, call) ==
  /\ pc' = [pc EXCEPT ![j] = label]
  /\ calls' = [calls EXCEPT ![j] = Append(@, call)]
  /\ result' = result

Return(j, r) ==
  /\ pc' = [pc EXCEPT ![j] = "done"]
  /\ calls' = calls
  /\ result' = [result EXCEPT ![j] = Append(@, r)]

\* A handler without a catch block: the fault leaves the call.
Propagate(j, message) ==
  /\ pc' = [pc EXCEPT ![j] = "threw"]
  /\ calls' = calls
  /\ result' = result

\* catch (error) of extractAndCleanAudio.
Catch(j, message) ==
  Return(j, FailureResult(j, "Unexpected error during audio extraction",
                          message, FALSE, <<>>, {}))

\* catch (error) of quickExtract.
QuickCatch(j, message) ==
  Return(j, FailureResult(j, "Quick extraction failed", message, FALSE, <<>>, {}))

(***************************************************************************)
(* The collaborators, as the handlers see them.                            *)
(***************************************************************************)
\* How a call of YouTubeService.downloadAudio ends: at "none" nothing
\* threw; else the await that threw (mkdir, the metadata probe, the fetch),
\* the message of the error, and whether a failed fetch left a file behind.
DownloadOutcomes ==
  {[at |-> "none", message |-> "", partial |-> FALSE]}
  \cup [at : {"mkdir", "info"}, message : ErrorMessages, partial : {FALSE}]
  \cup [at : {"fetch"}, message : ErrorMessages, partial : BOOLEAN]

\* A catch block that passes error.message on as it is.
downloadAudioBareMessage(outputPath, oc) ==
  [stage |-> "download", success |-> oc.at = "none",
   filePath |-> IF oc.at = "none" THEN outputPath ELSE NoPath,
   error |-> oc.message]

\* YouTubeService.downloadAudio: the value it resolves with.
downloadAudio(outputPath, oc) ==
  StepResult("download", oc.at = "none", outputPath,
             IF oc.message # "" THEN oc.message
             ELSE "Failed to download audio from YouTube")

\* The directories after downloadAudio: fs.mkdir(path.dirname(outputPath)).
DirsAfterDownload(outputPath, oc) ==
  IF oc.at = "mkdir" THEN dirs ELSE dirs \cup {outputPath.dir}

\* The files after downloadAudio.
FilesAfterDownload(outputPath, oc) ==
  IF oc.at = "none" \/ oc.partial THEN fs \cup {outputPath} ELSE fs

\* How an AudioProcessingService call ends: the engine's end event, its
\* error event (the output may be partly written), or an exception.
EngineOutcomes ==
  {[ev |-> "end", partial |-> FALSE], [ev |-> "throw", partial |-> FALSE]}
  \cup [ev : {"error"}, partial : BOOLEAN]

\* What an AudioProcessingService promise resolves with on the engine's end
\* event and on its error event.
EngineResult(s, out, oc) == StepResult(s, oc.ev = "end", out, "engine error")

\* A promise with an error handler that rejects.
RejectsOnError(oc) == oc.ev # "end"

\* The promise rejects: only an exception of its executor does that, the
\* handlers of both engine events call resolve.
Rejects(oc) == oc.ev = "throw"

\* How a call of getAudioMetadata ends: ffprobe's callback gets metadata
\* ("end") or err ("error"), or an exception is thrown.
ProbeOutcomes == {"end", "error", "throw"}

\* AudioProcessingService.getAudioMetadata: the value it resolves with,
\* {success, metadata} or {success, error}; it has no filePath.
getAudioMetadata(oc) ==
  [stage |-> "probe", success |-> oc = "end", filePath |-> NoPath,
   error |-> IF oc = "end" THEN "" ELSE "probe error"]

\* No value: the awaited promise rejected.
NoResult == [stage |-> "none", success |-> FALSE, filePath |-> NoPath, error |-> ""]

\* The record of a settled call: the event that settled it and the value
\* the caller's await got.
Settled(name, event, value) == [op |-> name, ev |-> event, value |-> value]

\* The engine ends with its end event only when it could read its input.
EnginePossible(inp, oc) == oc.ev = "end" => inp \in fs

FilesAfterEngine(out, oc) ==
  IF oc.ev = "end" \/ oc.partial THEN fs \cup {out} ELSE fs

(***************************************************************************)
(* extractAndCleanAudio(videoUrl, options)                                 *)
(***************************************************************************)
\* A handler that does not validate.
UrlAcceptedAlways(u) == TRUE

\* The handler goes past its validation.
UrlAccepted(u) == isValidYouTubeUrl(u)

\* Lines 23-52: up to the first await.
StartExtract(j, u, o) ==
  /\ pc[j] = "idle"
  /\ kind' = [kind EXCEPT ![j] = "full"]
  /\ url' = [url EXCEPT ![j] = u]
  /\ opt' = [opt EXCEPT ![j] = o]
  /\ ts' = [ts EXCEPT ![j] = now]
  /\ IF UrlAccepted(u)
     THEN Continue(j, "mkdirTemp", Call("mkdir", NoPath, DirPath(TempDir)))
     ELSE Return(j, FailureResult(j, "Invalid YouTube URL", "", FALSE, <<>>, {}))
  /\ UNCHANGED <<now, dirs, fs, steps, files, metadata, todo, cleanups, unlinks, settled>>

\* Line 52 resumes: await fs.mkdir(config.tempDir), then line 53 is called.
MkdirTemp(j) ==
  /\ pc[j] = "mkdirTemp"
  /\ \E ok \in BOOLEAN :
       IF ok
       THEN /\ dirs' = dirs \cup {TempDir}
            /\ Continue(j, "mkdirOutput", Call("mkdir", NoPath, DirPath(OutputDir)))
       ELSE /\ dirs' = dirs
            /\ Catch(j, "mkdir error")
  /\ UNCHANGED <<now, fs, kind, url, opt, ts, steps, files, metadata, todo,
                 cleanups, unlinks, settled>>

\* Line 53 resumes: await fs.mkdir(config.outputDir), then lines 55-64.
MkdirOutput(j) ==
  /\ pc[j] = "mkdirOutput"
  /\ \E ok \in BOOLEAN :
       IF ok
       THEN /\ dirs' = dirs \cup {OutputDir}
            /\ Continue(j, "download", CallAt(j, "download"))
       ELSE /\ dirs' = dirs
            /\ Catch(j, "mkdir error")
  /\ UNCHANGED <<now, fs, kind, url, opt, ts, steps, files, metadata, todo,
                 cleanups, unlinks, settled>>

\* The value returned when stage s reports failure (lines 67-74, 87-95,
\* 107-115, 127-135): the download failure carries no results.
StageFailure(j, s, r, stepSeq, fileSet) ==
  IF s = "download"
  THEN FailureResult(j, StageError(s), r.error, FALSE, <<>>, {})
  ELSE FailureResult(j, StageError(s), r.error, TRUE, stepSeq, fileSet)

\* Resumes with the step result r of stage s: records it, then returns the
\* failure or records the file and calls what comes next.
AfterStage(j, s, r) ==
  LET stepSeq == Append(steps[j], r)
      fileSet == IF r.success
                 THEN files[j] \cup {[key |-> FileKey(s), path |-> StageOutput(j, s)]}
                 ELSE files[j]
      next == NextAfter(s, r.success)
  IN /\ steps' = [steps EXCEPT ![j] = stepSeq]
     /\ IF next = "done"
        THEN /\ files' = files
             /\ Return(j, StageFailure(j, s, r, stepSeq, files[j]))
        ELSE /\ files' = [files EXCEPT ![j] = fileSet]
             /\ Continue(j, next, CallAt(j, next))

\* Line 64 resumes: downloadAudio(videoUrl, rawAudioPath) has settled.
Download(j) ==
  /\ pc[j] = "download"
  /\ \E oc \in DownloadOutcomes :
       /\ dirs' = DirsAfterDownload(Raw(j), oc)
       /\ fs' = FilesAfterDownload(Raw(j), oc)
       /\ metadata' = [metadata EXCEPT
                         ![j] = IF oc.at = "none" THEN @ \cup {"metadata"} ELSE @]
       /\ settled' = [settled EXCEPT ![j] = Append(@,
                        Settled("downloadAudio", IF oc.at = "none" THEN "end" ELSE "error",
                                downloadAudio(Raw(j), oc)))]
       /\ AfterStage(j, "download", downloadAudio(Raw(j), oc))
  /\ UNCHANGED <<now, kind, url, opt, ts, todo, cleanups, unlinks>>

\* An AudioProcessingService stage has settled (lines 81, 101, 121, 141).
EngineStage(j, s) ==
  /\ pc[j] = s
  /\ \E oc \in EngineOutcomes :
       /\ EnginePossible(StageInput(j, s), oc)
       /\ fs' = FilesAfterEngine(StageOutput(j, s), oc)
       /\ settled' = [settled EXCEPT ![j] = Append(@,
                        Settled(StageOp(s), oc.ev,
                                IF Rejects(oc) THEN NoResult
                                ELSE EngineResult(s, StageOutput(j, s), oc)))]
       /\ IF Rejects(oc)
          THEN /\ steps' = steps
               /\ files' = files
               /\ Catch(j, "engine exception")
          ELSE AfterStage(j, s, EngineResult(s, StageOutput(j, s), oc))
  /\ UNCHANGED <<now, dirs, kind, url, opt, ts, metadata, todo, cleanups, unlinks>>

ExtractRawAudio(j) == EngineStage(j, "extract")
ApplyNoiseReduction(j) == EngineStage(j, "noiseReduction")
EnhanceVocals(j) == EngineStage(j, "vocalEnhancement")
ConvertFormat(j) == EngineStage(j, "mp3Conversion")

\* A handler that fails the job when the probe gave no metadata.
ExtractSuccessNeedsMetadata(j, meta) ==
  IF "audioMetadata" \in meta
  THEN SuccessResult(j, videoIdOf(j), meta, CleanVoice(j), FileOrNull(files[j], "mp3"))
  ELSE FailureResult(j, "Failed to read audio metadata", "probe error", FALSE, <<>>, {})

\* A success result that names the MP3 path whatever the conversion did.
ExtractSuccessAlwaysMp3(j, meta) ==
  SuccessResult(j, videoIdOf(j), meta, CleanVoice(j), Mp3(j))

\* Lines 166-177.
ExtractSuccess(j, meta) ==
  SuccessResult(j, videoIdOf(j), meta, CleanVoice(j), FileOrNull(files[j], "mp3"))

\* Line 153 resumes: getAudioMetadata(cleanVoicePath) has settled; then the
\* cleanup is called or the result returned.
Probe(j) ==
  /\ pc[j] = "probe"
  /\ \E oc \in ProbeOutcomes :
       /\ oc = "end" => CleanVoice(j) \in fs
       /\ settled' = [settled EXCEPT ![j] = Append(@,
                        Settled("getAudioMetadata", oc,
                                IF oc = "throw" THEN NoResult ELSE getAudioMetadata(oc)))]
       /\ IF oc = "throw"
          THEN /\ metadata' = metadata
               /\ todo' = todo
               /\ cleanups' = cleanups
               /\ Catch(j, "probe exception")
          ELSE LET meta == IF getAudioMetadata(oc).success
                           THEN metadata[j] \cup {"audioMetadata"}
                           ELSE metadata[j]
               IN /\ metadata' = [metadata EXCEPT ![j] = meta]
                  /\ IF CleanupEnabled(opt[j])
                     THEN /\ todo' = [todo EXCEPT ![j] = CleanupList(j)]
                          /\ cleanups' = [cleanups EXCEPT ![j] = Append(@, CleanupList(j))]
                          /\ pc' = [pc EXCEPT ![j] = "cleanup"]
                          /\ calls' = calls
                          /\ result' = result
                     ELSE /\ todo' = todo
                          /\ cleanups' = cleanups
                          /\ Return(j, ExtractSuccess(j, meta))
  /\ UNCHANGED <<now, dirs, fs, kind, url, opt, ts, steps, files, unlinks>>

\* cleanupTempFiles goes on after an unlink: the next path, or back to the
\* handler, which returns its result.
UnlinkNext(j) ==
  /\ todo' = [todo EXCEPT ![j] = Tail(@)]
  /\ IF Tail(todo[j]) = <<>>
     THEN Return(j, ExtractSuccess(j, metadata[j]))
     ELSE UNCHANGED <<pc, calls, result>>

\* An unlink without the try of cleanupTempFiles: the error reaches the
\* handler's catch.
UnlinkThrows(j) ==
  /\ todo' = [todo EXCEPT ![j] = <<>>]
  /\ Catch(j, "unlink error")

\* catch (error) of cleanupTempFiles: warn, go on with the loop.
UnlinkFailed(j) == UnlinkNext(j)

\* await fs.unlink(filePath) has settled for the first path left.
Unlink(j) ==
  /\ pc[j] = "cleanup"
  /\ todo[j] # <<>>
  /\ \E ok \in BOOLEAN :
       /\ ok => Head(todo[j]) \in fs
       /\ fs' = IF ok THEN fs \ {Head(todo[j])} ELSE fs
       /\ unlinks' = [unlinks EXCEPT ![j] = Append(@, [path |-> Head(todo[j]), ok |-> ok])]
       /\ IF ok THEN UnlinkNext(j) ELSE UnlinkFailed(j)
  /\ UNCHANGED <<now, dirs, kind, url, opt, ts, steps, files, metadata, cleanups, settled>>

(***************************************************************************)
(* quickExtract(videoUrl)                                                  *)
(***************************************************************************)
\* Lines 197-216: up to the first await.
StartQuick(j, u) ==
  /\ pc[j] = "idle"
  /\ kind' = [kind EXCEPT ![j] = "quick"]
  /\ url' = [url EXCEPT ![j] = u]
  /\ ts' = [ts EXCEPT ![j] = now]
  /\ IF UrlAccepted(u)
     THEN Continue(j, "quickMkdir", Call("mkdir", NoPath, DirPath(OutputDir)))
     ELSE Return(j, FailureResult(j, "Invalid YouTube URL", "", FALSE, <<>>, {}))
  /\ UNCHANGED <<now, dirs, fs, opt, steps, files, metadata, todo, cleanups, unlinks, settled>>

\* Line 216 resumes, then line 219 is called.
QuickMkdir(j) ==
  /\ pc[j] = "quickMkdir"
  /\ \E ok \in BOOLEAN :
       IF ok
       THEN /\ dirs' = dirs \cup {OutputDir}
            /\ Continue(j, "quickDownload", Call("downloadAudio", NoPath, QuickOut(j)))
       ELSE /\ dirs' = dirs
            /\ QuickCatch(j, "mkdir error")
  /\ UNCHANGED <<now, fs, kind, url, opt, ts, steps, files, metadata, todo,
                 cleanups, unlinks, settled>>

\* Line 219 resumes: downloadAudio(videoUrl, outputPath) has settled.
QuickDownload(j) ==
  /\ pc[j] = "quickDownload"
  /\ \E oc \in DownloadOutcomes :
       LET r == downloadAudio(QuickOut(j), oc)
       IN /\ dirs' = DirsAfterDownload(QuickOut(j), oc)
          /\ fs' = FilesAfterDownload(QuickOut(j), oc)
          /\ settled' = [settled EXCEPT ![j] = Append(@,
                           Settled("downloadAudio", IF r.success THEN "end" ELSE "error", r))]
          /\ metadata' = [metadata EXCEPT
                            ![j] = IF r.success THEN @ \cup {"metadata"} ELSE @]
          /\ IF r.success
             THEN Return(j, SuccessResult(j, videoIdOf(j), {"metadata"},
                                          QuickOut(j), NoPath))
             ELSE Return(j, FailureResult(j, "Failed to download audio", r.error,
                                          FALSE, <<>>, {}))
  /\ UNCHANGED <<now, kind, url, opt, ts, steps, files, todo, cleanups, unlinks>>

(***************************************************************************)
(* The clock and the specification.                                        *)
(***************************************************************************)
Tick ==
  /\ now < MaxTime
  /\ now' = now + 1
  /\ UNCHANGED <<dirs, fs, pc, kind, url, opt, ts, steps, files, metadata, todo,
                 calls, cleanups, unlinks, result, settled>>

\* The jobs of a specification with one call at a time.
SoloJobs == {1}

JobStep(j) ==
  \/ \E u \in JobUrls, o \in CleanupOptions : StartExtract(j, u, o)
  \/ MkdirTemp(j)
  \/ MkdirOutput(j)
  \/ Download(j)
  \/ ExtractRawAudio(j)
  \/ ApplyNoiseReduction(j)
  \/ EnhanceVocals(j)
  \/ ConvertFormat(j)
  \/ Probe(j)
  \/ Unlink(j)
  \/ \E u \in JobUrls : StartQuick(j, u)
  \/ QuickMkdir(j)
  \/ QuickDownload(j)

Next == (Tick \/ \E j \in SoloJobs : JobStep(j)) /\ UNCHANGED otherVars

Spec == Init /\ [][Next]_vars

(***************************************************************************)
(* Concurrent requests: the server handles each POST /api/audio/extract in *)
(* its own async call, so the awaits of two calls interleave.  Both calls  *)
(* name the same video.  Of the faults, the stages' failure results are    *)
(* kept; exceptions, partly written outputs and messages of the download's *)
(* own errors are left out, and an unlink fails only on a missing file.    *)
(***************************************************************************)
ConcurrentStart(j) == \E o \in {"true", "false"} : StartExtract(j, UrlShort, o)

\* The step of job j stays within the faults kept.
ConcurrentFaults(j) ==
  /\ settled'[j] # settled[j] =>
       LET e == settled'[j][Len(settled'[j])]
       IN e.ev # "throw" /\ (e.ev = "error" => fs' = fs)
  /\ steps'[j] # steps[j] =>
       LET r == steps'[j][Len(steps'[j])]
       IN r.stage = "download" => r.error # "engine error"
  /\ unlinks'[j] # unlinks[j] =>
       LET u == unlinks'[j][Len(unlinks'[j])]
       IN u.ok \/ u.path \notin fs
  /\ result'[j] # <<>> =>
       result'[j][1].error # "Unexpected error during audio extraction"

ConcurrentStep(j) ==
  \/ ConcurrentStart(j)
  \/ MkdirTemp(j) /\ ConcurrentFaults(j)
  \/ MkdirOutput(j) /\ ConcurrentFaults(j)
  \/ Download(j) /\ ConcurrentFaults(j)
  \/ ExtractRawAudio(j) /\ ConcurrentFaults(j)
  \/ ApplyNoiseReduction(j) /\ ConcurrentFaults(j)
  \/ EnhanceVocals(j) /\ ConcurrentFaults(j)
  \/ ConvertFormat(j) /\ ConcurrentFaults(j)
  \/ Probe(j) /\ ConcurrentFaults(j)
  \/ Unlink(j) /\ ConcurrentFaults(j)

NextConcurrent == (Tick \/ \E j \in Jobs : ConcurrentStep(j)) /\ UNCHANGED otherVars

SpecConcurrent == Init /\ [][NextConcurrent]_vars

(***************************************************************************)
(* audioController: the handlers of POST /api/extract, /api/quick-extract  *)
(* and /api/video-info.  Each takes url (and cleanupTemp) from the body,   *)
(* answers 400 when url is missing, else awaits the service call and       *)
(* answers with its result.                                                *)
(***************************************************************************)
Endpoints == {"extract", "quick-extract", "video-info"}

\* !url: the body has no url, or an empty one.
NoUrl == <<>>

\* The url values a body carries.
BodyUrls == JobUrls \cup {NoUrl}

\* const { url, cleanupTemp = true } = req.body
DefaultCleanup(o) == IF o = "omitted" THEN "true" ELSE o

\* A response res.status(code).json(body).
Response(code, ok) == [status |-> code, success |-> ok]

\* A handler that answers 200 whatever the result says.
StatusOfAlwaysOk(threw, r) == Response(200, r.success)

\* The response to a settled service call: the catch block's 500 when it
\* threw, else 400 or 200 by the result's success.
StatusOf(threw, r) ==
  IF threw THEN Response(500, FALSE)
  ELSE IF ~r.success THEN Response(400, FALSE)
       ELSE Response(200, TRUE)

\* The handler's first part for endpoint e, up to the response for a
\* missing url or to the start of the service call.
Receive(j, e, u, start) ==
  /\ api[j] = "none"
  /\ pc[j] = "idle"
  /\ api' = [api EXCEPT ![j] = e]
  /\ IF u = NoUrl
     THEN /\ resp' = [resp EXCEPT ![j] = Append(@, Response(400, FALSE))]
          /\ UNCHANGED serviceVars
     ELSE /\ resp' = resp
          /\ start

\* AudioExtractionService.getVideoInfo: calls YouTubeService.getVideoInfo.
StartInfo(j, u) ==
  /\ pc[j] = "idle"
  /\ kind' = [kind EXCEPT ![j] = "info"]
  /\ url' = [url EXCEPT ![j] = u]
  /\ Continue(j, "info", Call("getVideoInfo", NoPath, NoPath))
  /\ UNCHANGED <<now, dirs, fs, opt, ts, steps, files, metadata, todo,
                 cleanups, unlinks, settled>>

\* YouTubeService.getVideoInfo has settled: {success: true, info} or, from
\* its catch block, {success: false, error}.
InfoSettled(j) ==
  /\ pc[j] = "info"
  /\ \E ok \in BOOLEAN :
       /\ settled' = [settled EXCEPT ![j] = Append(@,
                        Settled("getVideoInfo", IF ok THEN "end" ELSE "error", NoResult))]
       /\ IF ok
          THEN Return(j, SuccessResult(0, NullId, {"info"}, NoPath, NoPath))
          ELSE Return(j, FailureResult(0, "Failed to retrieve video information",
                                       "", FALSE, <<>>, {}))
  /\ UNCHANGED <<now, dirs, fs, kind, url, opt, ts, steps, files, metadata, todo,
                 cleanups, unlinks>>

ApiExtract(j) ==
  \E u \in BodyUrls, o \in CleanupOptions :
    /\ Receive(j, "extract", u, StartExtract(j, u, DefaultCleanup(o)))
    /\ flag' = [flag EXCEPT ![j] = o]

ApiQuickExtract(j) ==
  /\ \E u \in BodyUrls : Receive(j, "quick-extract", u, StartQuick(j, u))
  /\ flag' = flag

ApiVideoInfo(j) ==
  /\ \E u \in BodyUrls : Receive(j, "video-info", u, StartInfo(j, u))
  /\ flag' = flag

\* The await of the service call resumes: one response.
Respond(j) ==
  /\ api[j] # "none"
  /\ resp[j] = <<>>
  /\ pc[j] \in {"done", "threw"}
  /\ resp' = [resp EXCEPT ![j] = Append(@,
       StatusOf(pc[j] = "threw", IF pc[j] = "done" THEN result[j][1] ELSE NoResult))]
  /\ UNCHANGED <<api, flag, serviceVars>>

\* The service call of a request goes on.
ServiceStep(j) ==
  /\ \/ MkdirTemp(j)
     \/ MkdirOutput(j)
     \/ Download(j)
     \/ ExtractRawAudio(j)
     \/ ApplyNoiseReduction(j)
     \/ EnhanceVocals(j)
     \/ ConvertFormat(j)
     \/ Probe(j)
     \/ Unlink(j)
     \/ QuickMkdir(j)
     \/ QuickDownload(j)
     \/ InfoSettled(j)
  /\ UNCHANGED apiVars

\* A call of the service without a request, as the test script makes it.
DirectCall(j) ==
  /\ api[j] = "none"
  /\ \E u \in JobUrls, o \in CleanupOptions : StartExtract(j, u, o)
  /\ UNCHANGED apiVars

ApiStep(j) ==
  \/ DirectCall(j)
  \/ ApiExtract(j)
  \/ ApiQuickExtract(j)
  \/ ApiVideoInfo(j)
  \/ ServiceStep(j)
  \/ Respond(j)

NextApi ==
  /\ (Tick /\ UNCHANGED apiVars) \/ \E j \in SoloJobs : ApiStep(j)
  /\ UNCHANGED <<mlVars, deviceVars, storageVars>>

SpecApi == Init /\ [][NextApi]_vars

(***************************************************************************)
(* References.  The calls of this specification stop after the validation  *)
(* of their reference, which is drawn from strings built of the parts the  *)
(* patterns name and of strings that miss them by little.                  *)
(***************************************************************************)
Schemes == {<<>>, LitHttp, LitHttps}
Hosts == {<<>>, LitWww}
Tails ==
  {LitShort \o <<"a">>, LitShort, LitShort \o <<"-", "?">>, LitShort \o <<"?", "a">>,
   LitWatchV \o <<"a">>, LitWatchV, LitWatchV \o <<"&">>,
   LitWatch \o <<"x", "&">> \o LitV \o <<"a">>, LitWatch \o <<"x", "&">> \o LitV,
   LitWatch \o <<"x">>, LitEmbed \o <<"a">>, <<"v", "=", "a">>}

\* Strings with a part out of place: text before the scheme, the scheme
\* twice, the host before the scheme.
Misplaced ==
  {<<"x">> \o LitHttps \o LitShort \o <<"a">>,
   LitHttps \o LitHttps \o LitShort \o <<"a">>,
   LitWww \o LitHttps \o LitShort \o <<"a">>,
   <<"x">> \o LitWatch \o LitV \o <<"a">>}

References ==
  {s \o h \o tl : s \in Schemes, h \in Hosts, tl \in Tails} \cup Misplaced

ReferenceStep(j) ==
  \E u \in References : StartExtract(j, u, "omitted") \/ StartQuick(j, u)

NextReference == (\E j \in Jobs : ReferenceStep(j)) /\ UNCHANGED otherVars

SpecReference == Init /\ [][NextReference]_vars

(***************************************************************************)
(* MLService and useMLModel.  One MLService exists (the module exports an  *)
(* instance); each of its asynchronous methods is suspended at the call it *)
(* awaits, and the calls of different tasks interleave at those points.    *)
(***************************************************************************)
ErrPathRequired == "Model path is required"
ErrUnsupported == "Unsupported model format"
ErrNotLoaded == "is not loaded"
ErrNotImplemented == "Inference not implemented for model type"
ErrNative == "native error"
ErrHookNotLoaded == "Model is not loaded. Call loadModel() first."

\* The model the hook was given.
HookId == "m1"
HookConfigs == {c \in ModelConfigs : c.id = HookId}

\* Map.has, Map.keys, Map.set and Map.delete on models.
isModelLoaded(modelId) == modelId \in DOMAIN models
getLoadedModels == DOMAIN models
ModelsSet(modelId, entry) ==
  [id \in DOMAIN models \cup {modelId} |-> IF id = modelId THEN entry ELSE models[id]]

\* The contexts the entries of a registry m hold.
Held(m) == {m[id].context : id \in DOMAIN m} \ {"none"}

\* The name of the next context: the first one that no live context, no
\* entry and no call in progress bears.
Taken == contexts \cup Held(models) \cup {task[t].context : t \in Tasks}
CanCreate == \E i \in 1..Len(ContextIds) : ContextIds[i] \notin Taken
NewContext ==
  ContextIds[CHOOSE i \in 1..Len(ContextIds) :
               /\ ContextIds[i] \notin Taken
               /\ \A k \in 1..(i - 1) : ContextIds[k] \in Taken]
ModelsDeleteNothing(modelId) == models
ModelsDelete(modelId) == [id \in DOMAIN models \ {modelId} |-> models[id]]

\* The application starts on one platform.
Launch ==
  /\ platform = "unset"
  /\ platform' \in Platforms
  /\ outcome' = NoOutcome
  /\ UNCHANGED <<models, contexts, mlpc, task, lifecycle, hookVars>>

\* What the hook does before the call it awaits: loadModel and runInference
\* clear error; runInference is then a call of MLService in progress.
HookEnter(op, h, at) ==
  IF h /\ op = "loadModel"
    THEN /\ hookError' = ""
         /\ isLoading' = TRUE
         /\ isDownloading' = IF at = "hookDownload" THEN TRUE ELSE isDownloading
         /\ UNCHANGED <<hookLoaded, hookRun>>
  ELSE IF h /\ op = "runInference"
    THEN /\ hookError' = ""
         /\ hookRun' = [ret |-> "pending", called |-> TRUE]
         /\ UNCHANGED <<hookLoaded, flagVars>>
  ELSE UNCHANGED hookVars

\* What the hook does when the download it awaited has returned, before it
\* calls MLService.loadModel.
HookContinue(t) ==
  IF mlpc[t] = "hookDownload"
    THEN isDownloading' = FALSE /\ UNCHANGED <<hookLoaded, hookError, hookRun, isLoading>>
    ELSE UNCHANGED hookVars

\* What the hook does when the call it awaited returned (ok) or threw.
HookSettle(op, h, ok, err) ==
  IF ~h THEN UNCHANGED hookVars
  ELSE IF op = "loadModel"
    THEN /\ hookLoaded' = ok
         /\ hookError' = IF ok THEN hookError ELSE err
         /\ isLoading' = FALSE
         /\ isDownloading' = FALSE
         /\ UNCHANGED hookRun
  ELSE IF op = "unloadModel"
    THEN /\ hookLoaded' = IF ok THEN FALSE ELSE hookLoaded
         /\ hookError' = IF ok THEN "" ELSE err
         /\ UNCHANGED <<hookRun, flagVars>>
  ELSE /\ hookError' = IF ok THEN hookError ELSE err
       /\ hookRun' = [ret |-> IF ok THEN "result" ELSE "null", called |-> TRUE]
       /\ UNCHANGED <<hookLoaded, flagVars>>

\* The call of task t is suspended at the call named at.
Suspend(t, at, op, modelId, format, h, enter) ==
  /\ mlpc' = [mlpc EXCEPT ![t] = at]
  /\ task' = [task EXCEPT ![t] =
                [op |-> op, id |-> modelId, format |-> format,
                 context |-> IF at = "release" THEN models[modelId].context ELSE "none"]]
  /\ outcome' = NoOutcome
  /\ UNCHANGED <<platform, models, contexts, lifecycle>>
  /\ IF enter THEN HookEnter(op, h, at) ELSE HookContinue(t)

\* The call of task t returns (ok) or throws err, leaving models as m.
Finish(t, op, modelId, h, ok, err, ctx, m) ==
  /\ mlpc' = [mlpc EXCEPT ![t] = "idle"]
  /\ task' = [task EXCEPT ![t] = NoTask]
  /\ models' = m
  /\ contexts' = IF op = "unloadModel" /\ ok
                    THEN contexts \ {task[t].context}
                    ELSE contexts \cup Held(m)
  /\ outcome' = [op |-> op, id |-> modelId, ok |-> ok, error |-> err, context |-> ctx]
  /\ lifecycle' = IF ok /\ op \in {"loadModel", "unloadModel"}
                    THEN [lifecycle EXCEPT ![modelId] = op]
                    ELSE lifecycle
  /\ UNCHANGED platform
  /\ HookSettle(op, h, ok, err)

\* loadModel with modelPath known: the branch on the format.
LoadFormat(t, modelId, format, h, enter) ==
  IF format = "gguf"
    THEN Suspend(t, "loadLlamaModel", "loadModel", modelId, format, h, enter)
  ELSE IF format = "coreml" /\ platform = "ios"
    THEN Suspend(t, "loadCoreMLModel", "loadModel", modelId, format, h, enter)
  ELSE Finish(t, "loadModel", modelId, h, FALSE, ErrUnsupported, FALSE, models)

loadModel(t, config, h, enter) ==
  IF config.modelPath = "" /\ config.remoteUrl # ""
    THEN Suspend(t, "downloadModel", "loadModel", config.id, config.format, h, enter)
  ELSE IF config.modelPath = ""
    THEN Finish(t, "loadModel", config.id, h, FALSE, ErrPathRequired, FALSE, models)
  ELSE LoadFormat(t, config.id, config.format, h, enter)

\* this.downloadModel(config) returns the path of the file or throws.
DownloadModelSettled(t) ==
  /\ mlpc[t] = "downloadModel"
  /\ \E ok \in BOOLEAN :
       IF ok
         THEN LoadFormat(t, task[t].id, task[t].format, t \in HookTasks, FALSE)
         ELSE Finish(t, "loadModel", task[t].id, t \in HookTasks, FALSE, ErrNative, FALSE, models)

LoadLlamaSettledRegisters(t) ==
  /\ mlpc[t] = "loadLlamaModel"
  /\ CanCreate
  /\ \E ok \in BOOLEAN :
       Finish(t, "loadModel", task[t].id, t \in HookTasks, ok, IF ok THEN "" ELSE ErrNative,
              FALSE, ModelsSet(task[t].id, [type |-> "llama", context |-> NewContext]))

\* loadLlamaModel returns a new context, which the entry of the model then
\* holds in place of whatever entry there was, or throws.
LoadLlamaSettled(t) ==
  /\ mlpc[t] = "loadLlamaModel"
  /\ \E ok \in BOOLEAN :
       /\ ok => CanCreate
       /\ Finish(t, "loadModel", task[t].id, t \in HookTasks, ok, IF ok THEN "" ELSE ErrNative,
                 FALSE,
                 IF ok THEN ModelsSet(task[t].id, [type |-> "llama", context |-> NewContext])
                       ELSE models)

\* MLKitBridge.loadCoreMLModel returns or throws.
LoadCoreMLSettled(t) ==
  /\ mlpc[t] = "loadCoreMLModel"
  /\ \E ok \in BOOLEAN :
       Finish(t, "loadModel", task[t].id, t \in HookTasks, ok, IF ok THEN "" ELSE ErrNative,
              FALSE,
              IF ok THEN ModelsSet(task[t].id, [type |-> "coreml", context |-> "none"])
                    ELSE models)

unloadModel(t, modelId, h) ==
  IF ~isModelLoaded(modelId)
    THEN Finish(t, "unloadModel", modelId, h, TRUE, "", FALSE, models)
  ELSE IF models[modelId].type = "llama"
    THEN Suspend(t, "release", "unloadModel", modelId, "", h, TRUE)
  ELSE Finish(t, "unloadModel", modelId, h, TRUE, "", FALSE, ModelsDelete(modelId))

\* model.context.release() of the context the call found in the entry
\* returns or throws; the entry the id has by then is deleted.
ReleaseSettled(t) ==
  /\ mlpc[t] = "release"
  /\ \E ok \in BOOLEAN :
       Finish(t, "unloadModel", task[t].id, t \in HookTasks, ok, IF ok THEN "" ELSE ErrNative,
              TRUE, IF ok THEN ModelsDelete(task[t].id) ELSE models)

runInferenceNoCheck(t, modelId, h) ==
  Suspend(t, "completion", "runInference", modelId, "", h, TRUE)

runInference(t, modelId, h) ==
  IF ~isModelLoaded(modelId)
    THEN Finish(t, "runInference", modelId, h, FALSE, ErrNotLoaded, FALSE, models)
  ELSE IF models[modelId].type = "llama"
    THEN Suspend(t, "completion", "runInference", modelId, "", h, TRUE)
  ELSE Finish(t, "runInference", modelId, h, FALSE, ErrNotImplemented, FALSE, models)

\* model.context.completion(...) returns or throws.
CompletionSettled(t) ==
  /\ mlpc[t] = "completion"
  /\ \E ok \in BOOLEAN :
       Finish(t, "runInference", task[t].id, t \in HookTasks, ok, IF ok THEN "" ELSE ErrNative,
              TRUE, models)

\* The calls of code that uses MLService itself.
CallLoadModel(t) ==
  /\ t \notin HookTasks /\ mlpc[t] = "idle" /\ platform # "unset"
  /\ \E config \in ModelConfigs : loadModel(t, config, FALSE, TRUE)

CallUnloadModel(t) ==
  /\ t \notin HookTasks /\ mlpc[t] = "idle" /\ platform # "unset"
  /\ \E modelId \in ModelIds : unloadModel(t, modelId, FALSE)

CallRunInference(t) ==
  /\ t \notin HookTasks /\ mlpc[t] = "idle" /\ platform # "unset"
  /\ \E modelId \in ModelIds : runInference(t, modelId, FALSE)

\* useMLModel: the effect that runs when the hook is mounted.
HookMount ==
  /\ platform # "unset"
  /\ hookLoaded' = isModelLoaded(HookId)
  /\ hookError' = ""
  /\ outcome' = NoOutcome
  /\ UNCHANGED <<platform, models, contexts, mlpc, task, lifecycle, hookRun, flagVars>>

\* useMLModel.loadModel.
HookLoadModel(t) ==
  /\ t \in HookTasks /\ mlpc[t] = "idle" /\ platform # "unset"
  /\ \E config \in HookConfigs :
       IF isModelLoaded(config.id)
         THEN /\ hookLoaded' = TRUE
              /\ outcome' = NoOutcome
              /\ UNCHANGED <<platform, models, contexts, mlpc, task, lifecycle, hookError, hookRun, flagVars>>
       ELSE IF config.remoteUrl # "" /\ config.modelPath = ""
         THEN Suspend(t, "hookDownload", "loadModel", config.id, config.format, TRUE, TRUE)
       ELSE loadModel(t, config, TRUE, TRUE)

\* The download the hook awaits before MLService.loadModel: it returns, and
\* loadModel is called with the same configuration (no modelPath, a
\* remoteUrl), or it throws.
HookDownloadSettled(t) ==
  /\ t \in HookTasks /\ mlpc[t] = "hookDownload"
  /\ \E ok \in BOOLEAN :
       IF ok
         THEN Suspend(t, "downloadModel", "loadModel", task[t].id, task[t].format, TRUE, FALSE)
         ELSE Finish(t, "loadModel", task[t].id, TRUE, FALSE, ErrNative, FALSE, models)

\* useMLModel.runInference.
HookRunInference(t) ==
  /\ t \in HookTasks /\ mlpc[t] = "idle" /\ platform # "unset"
  /\ IF ~hookLoaded
       THEN /\ hookError' = ErrHookNotLoaded
            /\ hookRun' = [ret |-> "null", called |-> FALSE]
            /\ outcome' = NoOutcome
            /\ UNCHANGED <<platform, models, contexts, mlpc, task, lifecycle, hookLoaded, flagVars>>
       ELSE runInference(t, HookId, TRUE)

\* useMLModel.unloadModel.
HookUnloadModel(t) ==
  /\ t \in HookTasks /\ mlpc[t] = "idle" /\ platform # "unset"
  /\ unloadModel(t, HookId, TRUE)

MLStep(t) ==
  \/ CallLoadModel(t)
  \/ CallUnloadModel(t)
  \/ CallRunInference(t)
  \/ HookLoadModel(t)
  \/ HookDownloadSettled(t)
  \/ HookRunInference(t)
  \/ HookUnloadModel(t)
  \/ DownloadModelSettled(t)
  \/ LoadLlamaSettled(t)
  \/ LoadCoreMLSettled(t)
  \/ ReleaseSettled(t)
  \/ CompletionSettled(t)

NextML ==
  /\ Launch \/ HookMount \/ \E t \in MLTasks : MLStep(t)
  /\ UNCHANGED <<serviceVars, apiVars, deviceVars, storageVars>>

SpecML == Init /\ [][NextML]_vars

\* The component alone: two calls of its hook can be in progress.
HookStep(t) ==
  \/ HookLoadModel(t)
  \/ HookDownloadSettled(t)
  \/ HookRunInference(t)
  \/ HookUnloadModel(t)
  \/ DownloadModelSettled(t)
  \/ LoadLlamaSettled(t)
  \/ LoadCoreMLSettled(t)
  \/ ReleaseSettled(t)
  \/ CompletionSettled(t)

NextHook ==
  /\ Launch \/ HookMount \/ \E t \in HookTasks : HookStep(t)
  /\ UNCHANGED <<serviceVars, apiVars, deviceVars, storageVars>>

SpecHook == Init /\ [][NextHook]_vars

(***************************************************************************)
(* The model files: MLService.downloadModel and the storage utilities.     *)
(* Both name a file by the directory models and `${id}.${format}`.  A file *)
(* is "complete" when a download that ended with status 200 wrote it, and  *)
(* "partial" when a download has written to it and has not ended so.       *)
(***************************************************************************)
ErrRemoteUrl == "Remote URL is required for downloading model"
ErrStatus == "Download failed with status code"

ModelsDirName == "models"
StoredFormats == {"gguf", "coreml"}
StoredIds == {"m1"}
DownloadConfigs == [id : StoredIds, format : StoredFormats, remoteUrl : {"", "url"}]

\* downloadDest of downloadModel and getModelPath of the storage utilities.
downloadDest(config) == [dir |-> ModelsDirName, name |-> <<config.id, ".", config.format>>]
getModelPath(modelId, format) == [dir |-> ModelsDirName, name |-> <<modelId, ".", format>>]

\* RNFS.exists(path).
FileExists(path) == path \in DOMAIN modelFiles

\* The files after a write to path and after the unlink of path.
WriteFile(path, content) ==
  [f \in DOMAIN modelFiles \cup {path} |-> IF f = path THEN content ELSE modelFiles[f]]
RemoveFile(path) == [f \in DOMAIN modelFiles \ {path} |-> modelFiles[f]]
FileState(stored, path) == IF path \in DOMAIN stored THEN stored[path] ELSE "absent"

(***************************************************************************)
(* The download-progress listeners.  downloadListeners.get(id) || [] makes *)
(* a missing entry and an empty array alike, so the map is a function from *)
(* every model id to a sequence.  A callback is a function value: two      *)
(* registrations of one callback put the same value twice into the array.  *)
(***************************************************************************)
Callbacks == {"cbA", "cbB"}
MaxRegistrations == 3

\* updatedListeners.indexOf(callback): the first index, 0 when there is none.
indexOf(listeners, callback) ==
  IF \E i \in 1..Len(listeners) : listeners[i] = callback
    THEN CHOOSE i \in 1..Len(listeners) :
           /\ listeners[i] = callback
           /\ \A j \in 1..(i - 1) : listeners[j] # callback
    ELSE 0

\* updatedListeners.splice(index, 1).
splice(listeners, index) ==
  [i \in 1..(Len(listeners) - 1) |-> IF i < index THEN listeners[i] ELSE listeners[i + 1]]

\* The function onDownloadProgress(modelId, callback) returned, called on
\* the map listeners.
unsubscribe(listeners, modelId, callback) ==
  LET index == indexOf(listeners[modelId], callback)
  IN IF index > 0
       THEN [listeners EXCEPT ![modelId] = splice(listeners[modelId], index)]
       ELSE listeners

\* The history after one more call of the unsubscribe of registration r.
Unsubscribed(regs, r) == [regs EXCEPT ![r].unsubscribed = @ + 1]

\* listeners.forEach((listener) => listener(progress)) over the array of
\* modelId, from index k: forEach visits the indices below the length the
\* array had at the start that the array still has.  The callback called
\* does what react says of it: nothing (0) or a call of the unsubscribe of a
\* registration.  at is the map, the history and the calls made so far.
RECURSIVE forEach(_, _, _, _, _)
forEach(modelId, k, length, react, at) ==
  IF k > length \/ k > Len(at.listeners[modelId])
    THEN at
    ELSE LET listener == at.listeners[modelId][k]
             r == react[listener]
             called == [at EXCEPT !.calls = Append(@, listener)]
         IN forEach(modelId, k + 1, length, react,
                    IF r = 0
                      THEN called
                      ELSE [called EXCEPT
                              !.listeners = unsubscribe(@, at.regs[r].modelId, at.regs[r].callback),
                              !.regs = Unsubscribed(@, r),
                              !.reacted = TRUE])

\* onDownloadProgress(modelId, callback).
onDownloadProgress(modelId, callback) ==
  /\ Len(registrations) < MaxRegistrations
  /\ downloadListeners' = [downloadListeners EXCEPT ![modelId] = Append(@, callback)]
  /\ registrations' = Append(registrations,
                             [modelId |-> modelId, callback |-> callback, unsubscribed |-> 0])
  /\ notified' = NoNotified

CallOnDownloadProgress ==
  \E modelId \in ModelIds : \E callback \in Callbacks : onDownloadProgress(modelId, callback)

\* The unsubscribe function of registration r is called, outside an event,
\* for the first or the second time.
CallUnsubscribe ==
  \E r \in 1..Len(registrations) :
    /\ registrations[r].unsubscribed < 2
    /\ downloadListeners' = unsubscribe(downloadListeners, registrations[r].modelId,
                                        registrations[r].callback)
    /\ registrations' = Unsubscribed(registrations, r)
    /\ notified' = NoNotified

\* The progress callback of a download of modelId notifies the listeners.
NotifyListeners(modelId) ==
  \E react \in [Callbacks -> 0..Len(registrations)] :
    /\ \A callback \in Callbacks :
         react[callback] # 0 => registrations[react[callback]].unsubscribed = 0
    /\ LET at == forEach(modelId, 1, Len(downloadListeners[modelId]), react,
                         [listeners |-> downloadListeners, regs |-> registrations,
                          calls |-> <<>>, reacted |-> FALSE])
       IN /\ downloadListeners' = at.listeners
          /\ registrations' = at.regs
          /\ notified' = [modelId |-> modelId, calls |-> at.calls,
                          before |-> registrations, reacted |-> at.reacted]

\* A step that is no progress event and touches no listener.
NoListenerStep == notified' = NoNotified /\ UNCHANGED listenerVars

\* The downloadModel call of task t returns the path (ok) or throws err.
DownloadFinish(t, call, ok, err, stored) ==
  /\ dpc' = [dpc EXCEPT ![t] = "idle"]
  /\ dcall' = [dcall EXCEPT ![t] = NoDownload]
  /\ modelFiles' = stored
  /\ downloaded' = [call |-> call, ok |-> ok, error |-> err,
                    path |-> IF ok THEN downloadDest(call) ELSE NoModelPath,
                    file |-> FileState(stored, downloadDest(call))]

\* downloadModel(config), called by itself or by loadModel, which then
\* loads the model from the path returned: it awaits RNFS.mkdir.
downloadModel(t, config) ==
  /\ dpc[t] = "idle"
  /\ dpc' = [dpc EXCEPT ![t] = "mkdir"]
  /\ dcall' = [dcall EXCEPT ![t] =
                 [id |-> config.id, format |-> config.format, remoteUrl |-> config.remoteUrl,
                  existed |-> FALSE, started |-> FALSE, progressed |-> FALSE]]
  /\ downloaded' = NoDownloaded
  /\ UNCHANGED fileVars

CallDownloadModel(t) ==
  \E config \in DownloadConfigs : downloadModel(t, config)

\* RNFS.mkdir of the directory returns (the directory exists afterwards) or,
\* when the directory has to be created, throws.
DownloadMkdirSettled(t) ==
  /\ dpc[t] = "mkdir"
  /\ \/ /\ dpc' = [dpc EXCEPT ![t] = "exists"]
        /\ modelsDir' = TRUE
        /\ downloaded' = NoDownloaded
        /\ UNCHANGED <<modelFiles, dcall>>
     \/ /\ ~modelsDir
        /\ DownloadFinish(t, dcall[t], FALSE, ErrNative, modelFiles)
        /\ UNCHANGED modelsDir

\* RNFS.exists(downloadDest) returns: the path is returned at once, or the
\* call throws for want of a remoteUrl, or RNFS.downloadFile is started.
DownloadExistsFirstUrl(t) ==
  /\ dpc[t] = "exists"
  /\ LET call == [dcall[t] EXCEPT !.existed = FileExists(downloadDest(dcall[t]))]
     IN IF call.remoteUrl = ""
          THEN DownloadFinish(t, call, FALSE, ErrRemoteUrl, modelFiles) /\ UNCHANGED modelsDir
        ELSE IF call.existed
          THEN DownloadFinish(t, call, TRUE, "", modelFiles) /\ UNCHANGED modelsDir
        ELSE /\ dpc' = [dpc EXCEPT ![t] = "download"]
             /\ dcall' = [dcall EXCEPT ![t] = [call EXCEPT !.started = TRUE]]
             /\ downloaded' = NoDownloaded
             /\ UNCHANGED fileVars

DownloadExistsSettled(t) ==
  /\ dpc[t] = "exists"
  /\ LET call == [dcall[t] EXCEPT !.existed = FileExists(downloadDest(dcall[t]))]
     IN IF call.existed
          THEN DownloadFinish(t, call, TRUE, "", modelFiles) /\ UNCHANGED modelsDir
        ELSE IF call.remoteUrl = ""
          THEN DownloadFinish(t, call, FALSE, ErrRemoteUrl, modelFiles) /\ UNCHANGED modelsDir
        ELSE /\ dpc' = [dpc EXCEPT ![t] = "download"]
             /\ dcall' = [dcall EXCEPT ![t] = [call EXCEPT !.started = TRUE]]
             /\ downloaded' = NoDownloaded
             /\ UNCHANGED fileVars

\* The download writes bytes to the file and reports progress: the progress
\* callback notifies the listeners of config.id.  Nothing is written when
\* the directory has been removed meanwhile.
DownloadProgress(t) ==
  /\ dpc[t] = "download"
  /\ modelsDir
  /\ modelFiles' = WriteFile(downloadDest(dcall[t]), "partial")
  /\ dcall' = [dcall EXCEPT ![t].progressed = TRUE]
  /\ downloaded' = NoDownloaded
  /\ NotifyListeners(dcall[t].id)
  /\ UNCHANGED <<modelsDir, dpc>>

\* download.promise settles: with status 200 and the whole file written,
\* with another status, whose body may have been written to the file, or
\* with a rejection that leaves what was written.
DownloadPromiseSettled(t) ==
  /\ dpc[t] = "download"
  /\ UNCHANGED modelsDir
  /\ \/ /\ modelsDir
        /\ DownloadFinish(t, dcall[t], TRUE, "", WriteFile(downloadDest(dcall[t]), "complete"))
     \/ \E stored \in {modelFiles} \cup
                     (IF modelsDir THEN {WriteFile(downloadDest(dcall[t]), "partial")} ELSE {}) :
          DownloadFinish(t, dcall[t], FALSE, ErrStatus, stored)
     \/ DownloadFinish(t, dcall[t], FALSE, ErrNative, modelFiles)

DownloadStep(t) ==
  \/ CallDownloadModel(t) /\ NoListenerStep
  \/ DownloadMkdirSettled(t) /\ NoListenerStep
  \/ DownloadExistsSettled(t) /\ NoListenerStep
  \/ DownloadProgress(t)
  \/ DownloadPromiseSettled(t) /\ NoListenerStep

\* The call of a storage utility returns (ok) or throws.
UtilityFinish(call, ok, exists, names) ==
  /\ upc' = "idle"
  /\ ucall' = NoUtility
  /\ uresult' = [call |-> call, ok |-> ok, exists |-> exists, names |-> names]

\* The call of a storage utility is suspended at the call named at.
UtilityAwait(at, call) ==
  /\ upc' = at
  /\ ucall' = call
  /\ uresult' = NoUtilityResult

\* modelExists(modelId, format): what RNFS.exists answers for the path.
modelExists(modelId, format) == FileExists(getModelPath(modelId, format))

CallModelExists ==
  /\ upc = "idle"
  /\ \E modelId \in StoredIds : \E format \in StoredFormats :
       UtilityAwait("modelExists", [NoUtility EXCEPT !.op = "modelExists", !.id = modelId,
                                                     !.format = format])
  /\ UNCHANGED fileVars

ModelExistsSettled ==
  /\ upc = "modelExists"
  /\ UtilityFinish(ucall, TRUE, modelExists(ucall.id, ucall.format), {})
  /\ UNCHANGED fileVars

\* deleteModel(modelId, format).
CallDeleteModel ==
  /\ upc = "idle"
  /\ \E modelId \in StoredIds : \E format \in StoredFormats :
       UtilityAwait("delete.exists", [NoUtility EXCEPT !.op = "deleteModel", !.id = modelId,
                                                       !.format = format])
  /\ UNCHANGED fileVars

DeleteExistsSettled ==
  /\ upc = "delete.exists"
  /\ IF FileExists(getModelPath(ucall.id, ucall.format))
       THEN UtilityAwait("delete.unlink", [ucall EXCEPT !.before = TRUE])
       ELSE UtilityFinish(ucall, TRUE, FALSE, {})
  /\ UNCHANGED fileVars

\* RNFS.unlink(path) removes the file, or throws when there is none.
DeleteUnlinkSettled ==
  /\ upc = "delete.unlink"
  /\ IF FileExists(getModelPath(ucall.id, ucall.format))
       THEN /\ modelFiles' = RemoveFile(getModelPath(ucall.id, ucall.format))
            /\ UtilityFinish(ucall, TRUE, FALSE, {})
       ELSE /\ UNCHANGED modelFiles
            /\ UtilityFinish(ucall, FALSE, FALSE, {})
  /\ UNCHANGED modelsDir

\* getDownloadedModels(): initializeModelsDirectory, then RNFS.readDir; an
\* error of either makes it return the empty list.
CallGetDownloadedModels ==
  /\ upc = "idle"
  /\ UtilityAwait("list.exists", [NoUtility EXCEPT !.op = "getDownloadedModels"])
  /\ UNCHANGED fileVars

ListExistsSettled ==
  /\ upc = "list.exists"
  /\ UtilityAwait(IF modelsDir THEN "list.readDir" ELSE "list.mkdir", ucall)
  /\ UNCHANGED fileVars

ListMkdirSettled ==
  /\ upc = "list.mkdir"
  /\ \/ /\ modelsDir' = TRUE
        /\ UtilityAwait("list.readDir", ucall)
     \/ /\ ~modelsDir
        /\ UNCHANGED modelsDir
        /\ UtilityFinish(ucall, TRUE, FALSE, {})
  /\ UNCHANGED modelFiles

ListReadDirSettled ==
  /\ upc = "list.readDir"
  /\ UtilityFinish(ucall, TRUE, FALSE,
                   IF modelsDir THEN {f.name : f \in DOMAIN modelFiles} ELSE {})
  /\ UNCHANGED fileVars

\* clearAllModels(): when the directory exists, unlink it and make it again.
CallClearAllModels ==
  /\ upc = "idle"
  /\ UtilityAwait("clear.exists", [NoUtility EXCEPT !.op = "clearAllModels"])
  /\ UNCHANGED fileVars

ClearExistsSettled ==
  /\ upc = "clear.exists"
  /\ IF modelsDir
       THEN UtilityAwait("clear.unlink", [ucall EXCEPT !.before = TRUE])
       ELSE UtilityFinish(ucall, TRUE, FALSE, {})
  /\ UNCHANGED fileVars

\* RNFS.unlink(MODELS_DIR) removes the directory and the files in it, or
\* throws when there is none.
ClearUnlinkSettled ==
  /\ upc = "clear.unlink"
  /\ IF modelsDir
       THEN /\ modelsDir' = FALSE
            /\ modelFiles' = <<>>
            /\ UtilityAwait("clear.mkdir", ucall)
       ELSE /\ UNCHANGED fileVars
            /\ UtilityFinish(ucall, FALSE, FALSE, {})

ClearMkdirSettled ==
  /\ upc = "clear.mkdir"
  /\ \/ /\ modelsDir' = TRUE
        /\ UtilityFinish(ucall, TRUE, FALSE, {})
     \/ /\ ~modelsDir
        /\ UNCHANGED modelsDir
        /\ UtilityFinish(ucall, FALSE, FALSE, {})
  /\ UNCHANGED modelFiles

UtilityStep ==
  \/ CallModelExists
  \/ ModelExistsSettled
  \/ CallDeleteModel
  \/ DeleteExistsSettled
  \/ DeleteUnlinkSettled
  \/ CallGetDownloadedModels
  \/ ListExistsSettled
  \/ ListMkdirSettled
  \/ ListReadDirSettled
  \/ CallClearAllModels
  \/ ClearExistsSettled
  \/ ClearUnlinkSettled
  \/ ClearMkdirSettled

NextDownload ==
  /\ \/ /\ \E t \in MLTasks : DownloadStep(t)
        /\ uresult' = NoUtilityResult
        /\ UNCHANGED utilityVars
     \/ /\ UtilityStep
        /\ downloaded' = NoDownloaded
        /\ NoListenerStep
        /\ UNCHANGED downloadVars
  /\ UNCHANGED <<serviceVars, apiVars, mlVars, deviceVars>>

SpecDownload == Init /\ [][NextDownload]_vars

\* The listeners and the downloads of one caller whose progress events
\* they receive.
ListenerStep ==
  /\ CallOnDownloadProgress \/ CallUnsubscribe
  /\ downloaded' = NoDownloaded
  /\ UNCHANGED <<fileVars, downloadVars>>

NextListeners ==
  /\ ListenerStep \/ DownloadStep(HookTask)
  /\ UNCHANGED <<utilityVars, uresult>>
  /\ UNCHANGED <<serviceVars, apiVars, mlVars, deviceVars>>

SpecListeners == Init /\ [][NextListeners]_vars

(***************************************************************************)
(* The device and the model recommended for it.  Memory is counted in MB:  *)
(* physicalMemoryGB and the argument memoryGB are the MB count over 1024,  *)
(* requiredMemory is in MB.                                                *)
(***************************************************************************)
LLAMA_3_2_1B_Q4 == [id |-> "llama-3.2-1b-instruct-q4", requiredMemory |-> 1024]
LLAMA_3_2_3B_Q4 == [id |-> "llama-3.2-3b-instruct-q4", requiredMemory |-> 3072]
PHI_3_MINI_Q4 == [id |-> "phi-3-mini-q4", requiredMemory |-> 3072]
TINYLLAMA_1_1B_Q4 == [id |-> "tinyllama-1.1b-q4", requiredMemory |-> 1024]

\* The memory sizes tried: every 64 MB from 0 to 8 GB.
MemoryMB == {64 * k : k \in 0..128}

getRecommendedModel(memoryMB) ==
  IF memoryMB >= 6 * 1024 THEN LLAMA_3_2_3B_Q4
  ELSE IF memoryMB >= 4 * 1024 THEN PHI_3_MINI_Q4
  ELSE IF memoryMB >= 3 * 1024 THEN LLAMA_3_2_1B_Q4
  ELSE TINYLLAMA_1_1B_Q4

\* MLService.getDeviceCapabilities: what MLKitBridge reports on iOS (a
\* failure is rethrown and nothing is returned), the fallback on Android.
getDeviceCapabilities ==
  /\ platform # "unset"
  /\ IF platform = "ios"
       THEN \/ \E m \in MemoryMB \ {0} :
                 capabilities' = [device |-> "ios", physicalMemoryMB |-> m]
            \/ UNCHANGED capabilities
       ELSE capabilities' = [device |-> "Android", physicalMemoryMB |-> 0]
  /\ UNCHANGED recommended

\* A caller asks for the model for the memory the device reported.
Recommend ==
  /\ capabilities # NoCapabilities
  /\ recommended' = [memoryMB |-> capabilities.physicalMemoryMB,
                     model |-> getRecommendedModel(capabilities.physicalMemoryMB)]
  /\ UNCHANGED capabilities

NextDevice ==
  \/ Launch /\ UNCHANGED deviceVars
  \/ (getDeviceCapabilities \/ Recommend) /\ UNCHANGED mlVars

NextDeviceAll == NextDevice /\ UNCHANGED <<serviceVars, apiVars, storageVars>>

SpecDevice == Init /\ [][NextDeviceAll]_vars

(***************************************************************************)
(* Properties.                                                             *)
(***************************************************************************)
StageOps == {StageOp(s) : s \in StageSet}

\* The stage calls job j made, in order.
StageCalls(j) == SelectSeq(calls[j], LAMBDA c : c.op \in StageOps)

\* Job j has called stage s.
Invoked(j, s) == \E i \in 1..Len(StageCalls(j)) : StageCalls(j)[i].op = StageOp(s)

Full(j) == kind[j] = "full"

EngineIndexes == 2..Len(Stages)

StageSuffix ==
  <<"_raw.wav", "_filtered.wav", "_enhanced.wav", "_clean_voice.wav", "_clean_voice.mp3">>

\* C3: the input path given to a stage is the output path given to the stage
\* called just before it, the outputs being raw, filtered, enhanced,
\* clean_voice, mp3 in this order, and it is the output of no earlier stage.
C3_StageDependency ==
  \A j \in Jobs : Full(j) =>
    \A i \in 1..Len(StageCalls(j)) :
      /\ StageCalls(j)[i].output.suffix = StageSuffix[i]
      /\ i > 1 => StageCalls(j)[i].input = StageCalls(j)[i - 1].output
      /\ \A k \in 1..(i - 2) : StageCalls(j)[i].input # StageCalls(j)[k].output

\* C3 witness: all five stages have been called.
C3_Witness ==
  \E j \in Jobs : Full(j) /\ Len(StageCalls(j)) = Len(Stages)

\* C4: a call whose reference isValidYouTubeUrl rejects has returned by its
\* first step, with one failure result; it made no collaborator call (no
\* mkdir, no download, no engine call), passed nothing to cleanup, unlinked
\* nothing, and when no other call has run no directory or file exists.
C4_InvalidReference ==
  \A j \in Jobs :
    (pc[j] # "idle" /\ ~isValidYouTubeUrl(url[j]))
    => /\ pc[j] = "done"
       /\ Len(result[j]) = 1
       /\ ~result[j][1].success
       /\ result[j][1].error = "Invalid YouTube URL"
       /\ calls[j] = <<>>
       /\ steps[j] = <<>>
       /\ cleanups[j] = <<>>
       /\ unlinks[j] = <<>>
       /\ (\A k \in Jobs \ {j} : pc[k] = "idle") => (dirs = {} /\ fs = {})

\* C4 witness: a quickExtract call with a rejected reference has returned.
C4_Witness ==
  \E j \in Jobs :
    kind[j] = "quick" /\ pc[j] = "done" /\ ~isValidYouTubeUrl(url[j])

\* The intermediate paths of job j.
Intermediates(j) == {Raw(j), Filtered(j), Enhanced(j)}

\* Job j has recorded a result for stage s, and it is a success.
Succeeded(j, s) ==
  \E i \in 1..Len(steps[j]) : steps[j][i].stage = s /\ steps[j][i].success

\* C5 as stated: with the cleanup option enabled, once a job that ran a
\* stage has returned, with success or with the failure of any stage,
\* cleanupTempFiles has been called with its intermediate files.
C5_CleanupRegardlessOfOutcome ==
  \A j \in Jobs :
    (/\ Full(j) /\ pc[j] = "done" /\ CleanupEnabled(opt[j])
     /\ steps[j] # <<>>)
    => cleanups[j] # <<>>

\* C6 as stated: once a job that recorded an intermediate file has returned,
\* with cleanupTemp enabled none of raw, filtered, enhanced is on disk and,
\* when it returned success, the final WAV and MP3 are; with cleanupTemp
\* false every intermediate file it recorded is on disk.
C6_CleanupContract ==
  \A j \in Jobs :
    (Full(j) /\ pc[j] = "done" /\ files[j] # {})
    => IF CleanupEnabled(opt[j])
       THEN /\ Intermediates(j) \cap fs = {}
            /\ result[j][1].success => (CleanVoice(j) \in fs /\ Mp3(j) \in fs)
       ELSE \A f \in files[j] : f.path \in Intermediates(j) => f.path \in fs

\* C7: no path of the output directory, and none of the job's clean_voice
\* WAV, clean_voice MP3 or quick _audio.wav, is ever in a list given to
\* cleanupTempFiles or the argument of an unlink; a deliverable whose stage
\* reported success is on disk from then on.
C7_FinalsNeverDeleted ==
  \A j \in Jobs :
    LET finals == {CleanVoice(j), Mp3(j), QuickOut(j)}
    IN /\ \A i \in 1..Len(cleanups[j]) : \A k \in 1..Len(cleanups[j][i]) :
            /\ cleanups[j][i][k].dir # OutputDir
            /\ cleanups[j][i][k] \notin finals
       /\ \A i \in 1..Len(todo[j]) :
            todo[j][i].dir # OutputDir /\ todo[j][i] \notin finals
       /\ \A i \in 1..Len(unlinks[j]) :
            unlinks[j][i].path.dir # OutputDir /\ unlinks[j][i].path \notin finals
       /\ Succeeded(j, "vocalEnhancement") => CleanVoice(j) \in fs
       /\ Succeeded(j, "mp3Conversion") => Mp3(j) \in fs
       /\ (kind[j] = "quick" /\ pc[j] = "done" /\ result[j][1].success)
            => QuickOut(j) \in fs

\* C7 witness: a job returned after its cleanup deleted the three
\* intermediate files, and both deliverables are on disk.
C7_Witness ==
  \E j \in Jobs :
    /\ pc[j] = "done" /\ Len(unlinks[j]) = 3
    /\ \A i \in 1..3 : unlinks[j][i].ok
    /\ CleanVoice(j) \in fs /\ Mp3(j) \in fs

\* C8: whichever unlinks fail, cleanupTempFiles attempts every path of its
\* list, in order, once each; nothing of it reaches the handler's catch; and
\* the job returns the success result that its stages decided: the clean
\* WAV, the MP3 when the conversion succeeded and null otherwise.
C8_CleanupBestEffort ==
  \A j \in Jobs : cleanups[j] # <<>> =>
    /\ pc[j] \in {"cleanup", "done"}
    /\ Len(cleanups[j]) = 1
    /\ Len(unlinks[j]) + Len(todo[j]) = Len(cleanups[j][1])
    /\ \A i \in 1..Len(unlinks[j]) : unlinks[j][i].path = cleanups[j][1][i]
    /\ pc[j] = "cleanup" => todo[j] # <<>>
    /\ pc[j] = "done" =>
         /\ todo[j] = <<>>
         /\ Len(result[j]) = 1
         /\ result[j][1].success
         /\ result[j][1].error = ""
         /\ result[j][1].wav = CleanVoice(j)
         /\ result[j][1].mp3 =
              IF Succeeded(j, "mp3Conversion") THEN Mp3(j) ELSE NoPath

\* C8 witness: the first unlink failed, a later one succeeded, and the job
\* has returned.
C8_Witness ==
  \E j \in Jobs :
    /\ pc[j] = "done" /\ Len(unlinks[j]) = 3
    /\ ~unlinks[j][1].ok /\ unlinks[j][3].ok

\* C9 as stated: a job with cleanup enabled that recorded an intermediate
\* file has, once returned, passed its intermediate paths to cleanup exactly
\* once; and none of its files is unlinked before the metadata probe, its
\* last stage call, has returned.
C9_CleanupExactlyOnce ==
  \A j \in Jobs :
    /\ (Full(j) /\ pc[j] = "done" /\ CleanupEnabled(opt[j]) /\ files[j] # {})
         => (Len(cleanups[j]) = 1
             /\ cleanups[j][1] = <<Raw(j), Filtered(j), Enhanced(j)>>)
    /\ unlinks[j] # <<>> =>
         (/\ pc[j] \in {"cleanup", "done"}
          /\ \E i \in 1..Len(calls[j]) : calls[j][i].op = "getAudioMetadata")

\* C10: no call of extractAndCleanAudio or quickExtract lets a fault out.
\* Whatever the collaborators do, a call that is under way can go on, a
\* returned call has returned exactly one result, with a boolean success
\* and the call's jobId, and no call has ended otherwise.
C10_NoFaultPropagates ==
  \A j \in Jobs :
    /\ pc[j] # "threw"
    /\ Len(result[j]) = IF pc[j] = "done" THEN 1 ELSE 0
    /\ pc[j] = "done" =>
         (result[j][1].success \in BOOLEAN /\ result[j][1].jobId = j)
    /\ pc[j] \notin {"idle", "done"} => ENABLED JobStep(j)

\* C10 witness: an engine call threw and extractAndCleanAudio returned the
\* failure its catch block builds.
C10_Witness ==
  \E j \in Jobs :
    /\ Full(j) /\ pc[j] = "done"
    /\ ~result[j][1].success
    /\ result[j][1].details = "engine exception"
    /\ result[j][1].jobId = j

\* Job j has returned because its last recorded stage reported failure.
StageFailed(j) ==
  /\ Full(j) /\ pc[j] = "done"
  /\ steps[j] # <<>>
  /\ ~steps[j][Len(steps[j])].success
  /\ steps[j][Len(steps[j])].stage # "mp3Conversion"
  /\ ~result[j][1].success

\* C11 as stated: every failure result of extractAndCleanAudio caused by a
\* failed stage (download, extract, noise reduction or vocal enhancement)
\* carries every stage result recorded so far, the failed one included, an
\* error naming the failed stage and the error detail that stage reported.
C11_FailureCarriesResults ==
  \A j \in Jobs : StageFailed(j) =>
    LET last == steps[j][Len(steps[j])]
        r == result[j][1]
    IN /\ r.error = StageError(last.stage)
       /\ r.details = last.error
       /\ r.hasResults
       /\ r.steps = steps[j]

\* The file names of job j.
FileNames(j) == {Raw(j), Filtered(j), Enhanced(j), CleanVoice(j), Mp3(j)}

\* C12 as stated: two extractions of the same source never collide: every
\* file name of one job differs from every file name of the other, and no
\* job writes or deletes a file that another job returned as its output.
C12_NoCollision ==
  \A j \in Jobs : \A k \in Jobs \ {j} :
    (Full(j) /\ Full(k) /\ videoIdOf(j) = videoIdOf(k)) =>
      /\ FileNames(j) \cap FileNames(k) = {}
      /\ (pc[j] = "done" /\ result[j][1].success) =>
           /\ \A i \in 1..Len(calls[k]) :
                calls[k][i].output \notin {result[j][1].wav, result[j][1].mp3}
           /\ \A i \in 1..Len(unlinks[k]) :
                unlinks[k][i].path \notin {result[j][1].wav, result[j][1].mp3}

\* Job j has an engine invocation in flight: it awaits an
\* AudioProcessingService stage.
EngineInFlight(j) == pc[j] \in {Stages[i] : i \in EngineIndexes}

\* C13 as stated, for a pool smaller than the number of requests: the
\* engine invocations in flight at the same time are fewer than the
\* concurrent requests, however many of them have reached an engine stage.
C13_EngineInvocationsBounded ==
  Cardinality({j \in Jobs : EngineInFlight(j)}) < Cardinality(Jobs)

\* The downloadAudio call of job j has settled.
DownloadSettled(j) ==
  \E i \in 1..Len(settled[j]) : settled[j][i].op = "downloadAudio"

\* The destination job j asked downloadAudio to write.
DownloadDestination(j) ==
  LET c == SelectSeq(calls[j], LAMBDA x : x.op = "downloadAudio")
  IN c[1].output

\* C14: YouTubeService.downloadAudio never throws.  Whichever of its awaits
\* fails (mkdir, the metadata probe, the download) it resolves with success
\* false and a non-empty error; when all succeed it resolves with success
\* true, the requested destination as filePath and the source metadata.
\* The full job records the resolved value as its first step, the quick job
\* returns it as details or as outputFiles.wav and metadata.
C14_DownloadNeverThrows ==
  \A j \in Jobs : DownloadSettled(j) =>
    LET e == settled[j][1]
    IN /\ e.op = "downloadAudio" /\ e.ev \in {"end", "error"}
       /\ Full(j) =>
            /\ steps[j] # <<>> /\ steps[j][1].stage = "download"
            /\ steps[j][1].success = (e.ev = "end")
            /\ e.ev = "end" =>
                 /\ steps[j][1].filePath = DownloadDestination(j)
                 /\ "metadata" \in metadata[j]
            /\ e.ev = "error" =>
                 /\ steps[j][1].error # "" /\ steps[j][1].filePath = NoPath
                 /\ pc[j] = "done" /\ result[j][1].details = steps[j][1].error
       /\ kind[j] = "quick" =>
            /\ pc[j] = "done"
            /\ result[j][1].success = (e.ev = "end")
            /\ e.ev = "end" =>
                 /\ result[j][1].wav = DownloadDestination(j)
                 /\ "metadata" \in result[j][1].metadata
            /\ e.ev = "error" =>
                 /\ result[j][1].error = "Failed to download audio"
                 /\ result[j][1].details # ""

\* C14 witness: the download of a full job failed with an error that has no
\* message, and the job returned the fallback text as details.
C14_Witness ==
  \E j \in Jobs :
    /\ Full(j) /\ pc[j] = "done" /\ DownloadSettled(j)
    /\ settled[j][1].ev = "error"
    /\ result[j][1].details = "Failed to download audio from YouTube"

\* The AudioProcessingService operations the handlers call.
EngineOps == {StageOp(Stages[i]) : i \in EngineIndexes}

\* The calls of job j that it awaited a result of, in order.
AwaitedCalls(j) == SelectSeq(calls[j], LAMBDA c : c.op # "mkdir")

\* C15 as stated: every AudioProcessingService operation, getAudioMetadata
\* included, resolves with success true and the output path on the engine's
\* end event and with success false and the error message on its error
\* event.
C15_UniformResult ==
  \A j \in Jobs : \A i \in 1..Len(settled[j]) :
    LET e == settled[j][i]
    IN e.op \in EngineOps \cup {"getAudioMetadata"} =>
         /\ e.ev = "end" => (e.value.success /\ e.value.filePath # NoPath)
         /\ e.ev = "error" => (~e.value.success /\ e.value.error # "")

\* C15, amended: every awaited AudioProcessingService call settles once, in
\* call order.  On the engine's end event a transcoding operation resolves
\* with success true and the output path it was given, and getAudioMetadata
\* with success true, the metadata and no path; on the error event each
\* resolves with success false and the error message, and the handler goes
\* on with that value: the error is never a rejection.
C15_SettlesOnce ==
  \A j \in Jobs :
    /\ Len(settled[j]) <= Len(AwaitedCalls(j))
    /\ Len(AwaitedCalls(j)) <= Len(settled[j]) + 1
    /\ pc[j] = "done" => Len(settled[j]) = Len(AwaitedCalls(j))
    /\ \A i \in 1..Len(settled[j]) :
         LET e == settled[j][i]
             c == AwaitedCalls(j)[i]
         IN /\ e.op = c.op
            /\ e.op \in EngineOps =>
                 /\ e.ev = "end" =>
                      (/\ e.value.success /\ e.value.error = ""
                       /\ e.value.filePath = c.output /\ c.output # NoPath)
            /\ e.op = "getAudioMetadata" =>
                 /\ e.ev = "end" =>
                      (/\ e.value.success /\ e.value.filePath = NoPath
                       /\ "audioMetadata" \in metadata[j])
            /\ (e.op \in EngineOps \cup {"getAudioMetadata"} /\ e.ev = "error") =>
                 /\ ~e.value.success /\ e.value.error # ""
                 /\ e.value.filePath = NoPath
                 /\ (i = Len(settled[j]) /\ pc[j] = "done") =>
                      result[j][1].error # "Unexpected error during audio extraction"

\* C15 witness: in a returned job the MP3 conversion settled with the
\* engine's error event and the metadata probe with success.
C15_Witness ==
  \E j \in Jobs :
    /\ pc[j] = "done"
    /\ \E i \in 1..Len(settled[j]) :
         settled[j][i].op = "convertFormat" /\ settled[j][i].ev = "error"
    /\ \E i \in 1..Len(settled[j]) :
         settled[j][i].op = "getAudioMetadata" /\ settled[j][i].ev = "end"

\* The recorded file f of job j was written by a stage that reported
\* success with that path.
FromSuccess(j, f) ==
  \E i \in 1..Len(steps[j]) :
    /\ steps[j][i].success
    /\ FileKey(steps[j][i].stage) = f.key
    /\ steps[j][i].filePath = f.path

\* The path the successful stage s of job j reported, NoPath if there is
\* no such stage.
SuccessPath(j, s) ==
  IF Succeeded(j, s)
  THEN steps[j][CHOOSE i \in 1..Len(steps[j]) : steps[j][i].stage = s].filePath
  ELSE NoPath

\* C16: at every point of a job a path is in results.files only if the
\* stage that writes it reported success with it; the results and
\* outputFiles a job returns name only such paths; outputFiles.mp3 is
\* non-null exactly when the MP3 conversion reported success; and the quick
\* job returns a wav only from a successful download.
C16_FilesOnlyFromSuccess ==
  \A j \in Jobs :
    /\ \A f \in files[j] : FromSuccess(j, f)
    /\ pc[j] = "done" =>
         LET r == result[j][1]
         IN /\ \A f \in r.files : FromSuccess(j, f)
            /\ ~r.success => (r.wav = NoPath /\ r.mp3 = NoPath)
            /\ (r.success /\ Full(j)) =>
                 /\ r.wav # NoPath /\ r.wav = SuccessPath(j, "vocalEnhancement")
                 /\ r.mp3 = SuccessPath(j, "mp3Conversion")
                 /\ (r.mp3 # NoPath) = Succeeded(j, "mp3Conversion")
            /\ (r.success /\ kind[j] = "quick") =>
                 /\ settled[j][1].value.success
                 /\ r.wav = settled[j][1].value.filePath /\ r.mp3 = NoPath

\* C16 witness: a job returned success after its MP3 conversion reported
\* failure (and perhaps left a partly written file): outputFiles.mp3 is null.
C16_Witness ==
  \E j \in Jobs :
    /\ Full(j) /\ pc[j] = "done" /\ result[j][1].success
    /\ Len(steps[j]) = 5 /\ ~steps[j][5].success
    /\ Mp3(j) \in fs
    /\ result[j][1].mp3 = NoPath

\* How many calls of operation name job j has made.
CallCount(j, name) == Len(SelectSeq(calls[j], LAMBDA c : c.op = name))

\* C17: no implicit retries.  In one job each of downloadAudio, the four
\* AudioProcessingService stages and getAudioMetadata is called at most
\* once, and a stage that reported failure has been called exactly once.
C17_NoRetries ==
  \A j \in Jobs :
    /\ \A name \in StageOps \cup {"getAudioMetadata"} : CallCount(j, name) <= 1
    /\ \A i \in 1..Len(settled[j]) :
         settled[j][i].ev # "end" => CallCount(j, settled[j][i].op) = 1

\* C17 witness: the extract stage reported failure and the job returned
\* having called it once.
C17_Witness ==
  \E j \in Jobs :
    /\ Full(j) /\ pc[j] = "done"
    /\ Len(steps[j]) = 2 /\ ~steps[j][2].success
    /\ CallCount(j, "extractRawAudio") = 1

\* C18: quickExtract only downloads.  It calls no AudioProcessingService
\* operation (its calls are mkdir and downloadAudio), never runs the
\* cleanup, and once the download has settled it has returned: success true
\* with outputFiles.wav the download destination, a file of the output
\* directory, when the download succeeded, success false when it failed.
C18_QuickDownloadOnly ==
  \A j \in Jobs : kind[j] = "quick" =>
    /\ \A i \in 1..Len(calls[j]) : calls[j][i].op \in {"mkdir", "downloadAudio"}
    /\ cleanups[j] = <<>> /\ unlinks[j] = <<>> /\ todo[j] = <<>>
    /\ DownloadSettled(j) =>
         /\ pc[j] = "done"
         /\ settled[j][1].ev = "end" =>
              /\ result[j][1].success
              /\ result[j][1].wav = DownloadDestination(j)
              /\ result[j][1].wav.dir = OutputDir
              /\ result[j][1].wav \in fs
         /\ settled[j][1].ev = "error" => ~result[j][1].success

\* C18 witness: a quick job whose download succeeded has returned.
C18_Witness ==
  \E j \in Jobs :
    /\ kind[j] = "quick" /\ pc[j] = "done"
    /\ DownloadSettled(j) /\ settled[j][1].ev = "end"
    /\ result[j][1].success

\* The download of the full job j has settled with a failure.
DownloadFailed(j) ==
  Full(j) /\ DownloadSettled(j) /\ settled[j][1].ev = "error"

\* C19: a full extraction of an accepted reference whose download fails has
\* returned success false with the error "Failed to download audio from
\* YouTube" (which begins "Failed to download audio"), has called no
\* AudioProcessingService operation, names no output file in its result or
\* in results.files, and has written neither of its files of the output
\* directory.
C19_UnreachableSource ==
  \A j \in Jobs : DownloadFailed(j) =>
    /\ pc[j] = "done"
    /\ ~result[j][1].success
    /\ result[j][1].error = "Failed to download audio from YouTube"
    /\ \A i \in 1..Len(calls[j]) :
         calls[j][i].op \notin EngineOps \cup {"getAudioMetadata"}
    /\ result[j][1].wav = NoPath /\ result[j][1].mp3 = NoPath
    /\ files[j] = {} /\ result[j][1].files = {}
    /\ CleanVoice(j) \notin fs /\ Mp3(j) \notin fs

\* C19 witness: the download of an accepted reference failed and the job
\* has returned.
C19_Witness ==
  \E j \in Jobs :
    /\ DownloadFailed(j) /\ pc[j] = "done"
    /\ isValidYouTubeUrl(url[j])
    /\ CallCount(j, "downloadAudio") = 1

\* The call of operation name by job j settled with the event "end".
Ended(j, name) ==
  \E i \in 1..Len(settled[j]) : settled[j][i].op = name /\ settled[j][i].ev = "end"

\* The full job j has returned success.
FullSuccess(j) == Full(j) /\ pc[j] = "done" /\ result[j][1].success

UrlMissing(j) == api[j] # "none" /\ url[j] = NoUrl

\* C21: every request to /api/extract, /api/quick-extract or
\* /api/video-info gets one JSON response and never a second.  A request
\* without url has its 400 at once and no service call is made; else the
\* response waits for the service call and is 400 when its result has
\* success false, 200 when it has success true and 500 when the call
\* threw; and a request whose service call has settled can be answered.
C21_OneResponse ==
  \A j \in Jobs :
    /\ Len(resp[j]) <= 1
    /\ api[j] = "none" => resp[j] = <<>>
    /\ UrlMissing(j) =>
         /\ resp[j] = <<Response(400, FALSE)>>
         /\ pc[j] = "idle" /\ calls[j] = <<>>
    /\ (api[j] # "none" /\ ~UrlMissing(j)) =>
         /\ kind[j] = CASE api[j] = "extract" -> "full"
                         [] api[j] = "quick-extract" -> "quick"
                         [] api[j] = "video-info" -> "info"
         /\ resp[j] # <<>> =>
              /\ pc[j] \in {"done", "threw"}
              /\ pc[j] = "threw" => resp[j][1] = Response(500, FALSE)
              /\ pc[j] = "done" =>
                   /\ resp[j][1].success = result[j][1].success
                   /\ resp[j][1].status = IF result[j][1].success THEN 200 ELSE 400
         /\ (resp[j] = <<>> /\ pc[j] \in {"done", "threw"}) => ENABLED Respond(j)
         /\ (resp[j] = <<>> /\ pc[j] \notin {"done", "threw"}) => ENABLED ServiceStep(j)

\* C21 witness: a request to /api/extract with a url got its one response,
\* the 400 of a service result with success false.
C21_Witness ==
  \E j \in Jobs :
    /\ api[j] = "extract" /\ ~UrlMissing(j)
    /\ pc[j] = "done" /\ ~result[j][1].success
    /\ resp[j] = <<Response(400, FALSE)>>

\* lit is the beginning of s.
StartsWith(s, lit) == Len(lit) <= Len(s) /\ SubSeq(s, 1, Len(lit)) = lit

\* The beginnings the patterns allow before the host name: an optional
\* scheme, then an optional www.
Openings == {s \o h : s \in Schemes, h \in Hosts}

\* The short-link and the canonical watch-page form: an opening, youtu.be/
\* or youtube.com/watch?v=, then a character of the id.
DirectForm(s) ==
  \E o \in Openings, h \in {LitShort, LitWatchV} :
    /\ StartsWith(s, o \o h)
    /\ Len(s) > Len(o \o h)
    /\ s[Len(o \o h) + 1] \in WordChars

\* The watch-page form with other text before the v parameter.
QueryForm(s) ==
  \E o \in Openings :
    /\ StartsWith(s, o \o LitWatch)
    /\ \E k \in (Len(o \o LitWatch) + 1)..(Len(s) - 2) :
         s[k] = "v" /\ s[k + 1] = "=" /\ s[k + 2] \in WordChars

\* Job j has been started, and its reference was accepted or rejected.
Validated(j) == kind[j] \in {"full", "quick"}
Rejected(j) ==
  pc[j] = "done" /\ calls[j] = <<>> /\ result[j][1].error = "Invalid YouTube URL"

\* C22: isValidYouTubeUrl is true of every string that has one of the
\* accepted forms (short link or watch page, the v parameter first or
\* later in the query) and false of every other string: a call is rejected
\* as an invalid URL exactly when its reference has none of the forms.
C22_ValidIffMatches ==
  \A j \in Jobs : Validated(j) =>
    /\ isValidYouTubeUrl(url[j]) = (DirectForm(url[j]) \/ QueryForm(url[j]))
    /\ Rejected(j) = ~(DirectForm(url[j]) \/ QueryForm(url[j]))

\* C22 witness: one call was accepted for a watch-page reference whose v
\* parameter is not the first, another was rejected for a reference with
\* text before the scheme.
C22_Witness ==
  \E j \in Jobs : \E k \in Jobs :
    /\ Validated(j) /\ ~Rejected(j)
    /\ url[j] = LitHttps \o LitWww \o LitWatch \o <<"x", "&">> \o LitV \o <<"a">>
    /\ Validated(k) /\ Rejected(k)
    /\ url[k] = <<"x">> \o LitHttps \o LitShort \o <<"a">>

\* C27 as stated: for every reference isValidYouTubeUrl accepts,
\* extractVideoId returns an id, so the file names of an accepted call are
\* never built on a null id.
C27_AcceptedHasId ==
  \A j \in Jobs : (Validated(j) /\ ~Rejected(j)) =>
    /\ isValidYouTubeUrl(url[j])
    /\ extractVideoId(url[j]) # NullId
    /\ Raw(j).id = extractVideoId(url[j])
    /\ QuickOut(j).id = extractVideoId(url[j])

\* The filter names of a chain string, as ffmpeg reads them: the piece at
\* the start and the piece after every comma.
RECURSIVE NamesFrom(_, _)
NamesFrom(text, i) ==
  IF i > Len(text) THEN <<>>
  ELSE (IF i = 1 \/ text[i - 1] = "," THEN <<text[i]>> ELSE <<>>)
       \o NamesFrom(text, i + 1)

FilterNames(text) == NamesFrom(text, 1)

\* The place of a filter in the canonical order: frequency-domain filters,
\* then the compander, then the loudness normalization; 0 for any other.
FilterRank(name) ==
  CASE name \in {"highpass", "lowpass", "afftdn", "equalizer"} -> 1
    [] name = "compand" -> 2
    [] name = "loudnorm" -> 3
    [] OTHER -> 0

\* C23: in every filter chain the pipeline gives the engine the
\* frequency-domain filters (highpass, lowpass, afftdn, equalizer) come
\* before the compander and the compander before the loudness
\* normalization; the chain of applyNoiseReduction is exactly highpass,
\* lowpass, afftdn, compand, the chain of enhanceVocals exactly highpass,
\* lowpass, afftdn, equalizer, compand, loudnorm, and no other call has one.
C23_FilterOrder ==
  \A j \in Jobs : \A i \in 1..Len(calls[j]) :
    LET c == calls[j][i]
        names == FilterNames(c.filters)
    IN /\ \A a \in 1..Len(names) : FilterRank(names[a]) > 0
       /\ \A a \in 1..Len(names) : \A b \in (a + 1)..Len(names) :
            FilterRank(names[a]) <= FilterRank(names[b])
       /\ c.op = "applyNoiseReduction" =>
            names = <<"highpass", "lowpass", "afftdn", "compand">>
       /\ c.op = "enhanceVocals" =>
            names = <<"highpass", "lowpass", "afftdn", "equalizer", "compand", "loudnorm">>
       /\ c.op \notin {"applyNoiseReduction", "enhanceVocals"} => c.filters = <<>>

\* C23 witness: a job has called both filter stages, each with its chain.
C23_Witness ==
  \E j \in Jobs :
    /\ CallCount(j, "applyNoiseReduction") = 1
    /\ CallCount(j, "enhanceVocals") = 1
    /\ \A i \in 1..Len(calls[j]) :
         calls[j][i].op = "enhanceVocals" => Len(FilterNames(calls[j][i].filters)) = 6

\* The calls of job j that give the engine a filter chain.
FilterCalls(j) == SelectSeq(calls[j], LAMBDA c : c.filters # <<>>)

C25_CleanupDefault ==
  \A j \in Jobs : FullSuccess(j) =>
    /\ (cleanups[j] = <<>>) = (opt[j] = "false")
    /\ opt[j] # "false" => cleanups[j] = <<CleanupList(j)>>
    /\ api[j] = "extract" =>
         /\ opt[j] = (IF flag[j] = "omitted" THEN "true" ELSE flag[j])
         /\ (cleanups[j] = <<>>) = (flag[j] = "false")

\* C25 witness: a request whose body omits cleanupTemp succeeded and the
\* cleanup was called.
C25_Witness ==
  \E j \in Jobs :
    /\ FullSuccess(j) /\ api[j] = "extract" /\ flag[j] = "omitted"
    /\ cleanups[j] = <<CleanupList(j)>>

\* The metadata probe of job j settled with the error of ffprobe.
ProbeFailed(j) ==
  \E i \in 1..Len(settled[j]) :
    settled[j][i].op = "getAudioMetadata" /\ settled[j][i].ev = "error"

\* C26: getAudioMetadata is called only after download, extract, noise
\* reduction and vocal enhancement all reported success and the MP3
\* conversion has reported; it is called as soon as the conversion has
\* reported, success or failure; and a failed probe does not fail the
\* job, which goes on to the cleanup and returns success true without
\* audioMetadata.
C26_ProbeAfterSuccess ==
  \A j \in Jobs : Full(j) =>
    /\ CallCount(j, "getAudioMetadata") > 0 =>
         /\ \A i \in 1..4 : Succeeded(j, Stages[i])
         /\ Len(steps[j]) = 5 /\ steps[j][5].stage = "mp3Conversion"
    /\ Len(steps[j]) = 5 => CallCount(j, "getAudioMetadata") = 1
    /\ ProbeFailed(j) =>
         /\ pc[j] \in {"cleanup", "done"}
         /\ "audioMetadata" \notin metadata[j]
         /\ pc[j] = "done" =>
              /\ result[j][1].success
              /\ "audioMetadata" \notin result[j][1].metadata
              /\ result[j][1].wav = CleanVoice(j)

\* C26 witness: the MP3 conversion failed, the probe was called and failed
\* too, and the job returned success.
C26_Witness ==
  \E j \in Jobs :
    /\ Full(j) /\ pc[j] = "done" /\ ProbeFailed(j)
    /\ ~steps[j][5].success
    /\ result[j][1].success

\* The paths the calls of job j were given to write.
Written(j) == {calls[j][i].output : i \in 1..Len(calls[j])} \ {NoPath}

\* C28 as stated: jobs are isolated in every interleaving.  The cleanup of
\* a job deletes only files this job was given to write and that are no
\* file of another job, and no call of a job reads or writes a file of
\* another job.
C28_JobIsolation ==
  \A j \in Jobs : \A k \in Jobs \ {j} : (Full(j) /\ Full(k)) =>
    /\ \A i \in 1..Len(unlinks[j]) :
         unlinks[j][i].ok =>
           (unlinks[j][i].path \in Written(j) /\ unlinks[j][i].path \notin FileNames(k))
    /\ \A i \in 1..Len(calls[j]) :
         /\ calls[j][i].input \notin FileNames(k)
         /\ calls[j][i].output \notin FileNames(k)

\* The ids whose last lifecycle call completed without error was a loadModel.
LastLoaded == {id \in ModelIds : lifecycle[id] = "loadModel"}

\* A call unloadModel(id) of task t made while id is not loaded.
UnloadNotLoaded(t, id) ==
  /\ mlpc[t] = "idle"
  /\ ~isModelLoaded(id)
  /\ unloadModel(t, id, t \in HookTasks)

\* C29 as stated: whatever loadModel, unloadModel and runInference calls
\* were made, isModelLoaded(id) is true exactly when the last lifecycle
\* call on id that completed without error was a loadModel, and
\* getLoadedModels is the set of those ids; unloadModel on an id that is not
\* loaded returns at once and leaves the loaded models as they were.
C29_LoadUnloadLifecycle ==
  /\ [](/\ \A id \in ModelIds : isModelLoaded(id) <=> lifecycle[id] = "loadModel"
        /\ getLoadedModels = LastLoaded)
  /\ [][\A t \in Tasks : \A id \in ModelIds :
          UnloadNotLoaded(t, id) =>
            (models' = models /\ mlpc'[t] = "idle" /\ outcome'.ok /\ ~outcome'.context)]_vars

\* One model is loaded by a completed loadModel and a model that cannot be
\* loaded on this platform has been unloaded without effect.
C29_Witness ==
  /\ lifecycle["m1"] = "loadModel" /\ getLoadedModels = {"m1"}
  /\ lifecycle["m2"] = "unloadModel"
  /\ outcome = [op |-> "unloadModel", id |-> "m2", ok |-> TRUE, error |-> "",
                context |-> FALSE]

\* A call MLService.runInference(id) of task t made while id is not loaded.
InferenceNotLoaded(t, id) ==
  /\ mlpc[t] = "idle"
  /\ ~isModelLoaded(id)
  /\ runInference(t, id, t \in HookTasks)

\* C30 as stated: MLService.runInference on an id that is not loaded throws
\* the 'not loaded' error at once, with no call of a model context; the
\* runInference of useMLModel, when the hook's isModelLoaded is false,
\* returns null and sets error with no call of MLService; neither changes
\* the loaded models.
C30_InferenceNeedsLoadedModel ==
  [][(\A t \in Tasks : \A id \in ModelIds :
        InferenceNotLoaded(t, id) =>
          (/\ outcome' = [op |-> "runInference", id |-> id, ok |-> FALSE,
                          error |-> ErrNotLoaded, context |-> FALSE]
           /\ mlpc'[t] = "idle"
           /\ models' = models))
     /\ ((~hookLoaded /\ HookRunInference(HookTask)) =>
          (/\ hookRun' = [ret |-> "null", called |-> FALSE]
           /\ hookError' = ErrHookNotLoaded
           /\ outcome' = NoOutcome
           /\ UNCHANGED <<models, contexts, mlpc, task>>))]_vars

\* The model of the hook was loaded and unloaded, the service has since
\* refused an inference on it, and the hook has returned null without a
\* call of the service.
C30_Witness ==
  /\ lifecycle[HookId] = "unloadModel" /\ ~isModelLoaded(HookId)
  /\ outcome = [op |-> "runInference", id |-> HookId, ok |-> FALSE,
                error |-> ErrNotLoaded, context |-> FALSE]
  /\ hookRun = [ret |-> "null", called |-> FALSE]
  /\ hookError = ErrHookNotLoaded

\* C38 as stated: getRecommendedModel returns one model for every memory
\* size, Llama 3.2 3B from 6 GB, Phi-3 Mini from 4 GB to below 6 GB, Llama
\* 3.2 1B from 3 GB to below 4 GB and TinyLlama below 3 GB, and the model
\* returned requires no more memory than the device has, the memory 0 of
\* the Android fallback included.
C38_RecommendedModelFits ==
  recommended # NoRecommendation =>
    LET m == recommended.memoryMB
        r == recommended.model
    IN /\ r = (CASE m >= 6144 -> LLAMA_3_2_3B_Q4
                 [] m >= 4096 /\ m < 6144 -> PHI_3_MINI_Q4
                 [] m >= 3072 /\ m < 4096 -> LLAMA_3_2_1B_Q4
                 [] OTHER -> TINYLLAMA_1_1B_Q4)
       /\ r.requiredMemory <= m

\* A step in which a loadModel or unloadModel call throws.
LifecycleFails ==
  /\ outcome'.op \in {"loadModel", "unloadModel"}
  /\ ~outcome'.ok

\* C32 as stated: a loadModel that fails (download failure, missing path,
\* unsupported format, native load error) and an unloadModel that fails
\* (release throws) leave the loaded models as they were, so a model whose
\* release failed stays registered, and the error reaches the caller.
C32_FailureLeavesRegistry ==
  [][LifecycleFails =>
       (/\ models' = models
        /\ outcome'.error \in {ErrNative, ErrPathRequired, ErrUnsupported}
        /\ \A t \in Tasks : mlpc[t] = "release" /\ mlpc'[t] = "idle" =>
             (isModelLoaded(task[t].id) => task[t].id \in DOMAIN models'))]_vars

\* A release has thrown and the model is still registered.
C32_Witness ==
  /\ outcome.op = "unloadModel" /\ ~outcome.ok /\ outcome.error = ErrNative
  /\ isModelLoaded(outcome.id)
  /\ lifecycle[outcome.id] = "loadModel"

\* C31 as stated: whatever loadModel and unloadModel calls were made and
\* however they interleaved, every llama context created and not released
\* is the one the entry of a model holds, so that unloading every loaded
\* model releases every context: no context is live once models is empty
\* and no call is in progress.
C31_NoContextLeak ==
  /\ contexts \subseteq Held(models)
  /\ (DOMAIN models = {} /\ \A t \in Tasks : mlpc[t] = "idle") => contexts = {}

\* C37 as stated: whenever the hook reports isModelLoaded true for its
\* model, MLService.isModelLoaded of that model is true, also when the
\* model is loaded or unloaded by a caller other than this hook.
C37_HookAgreesWithService == hookLoaded => isModelLoaded(HookId)

\* A loadModel call of the hook is in progress.
HookLoading == \E t \in HookTasks : task[t].op = "loadModel"

\* C36 as stated: isDownloading is true only while isLoading is true;
\* isLoading is true whenever a loadModel call of the hook is in progress,
\* also one started while an earlier one was running; once every loadModel
\* call has settled both flags are false, and isModelLoaded is true after a
\* success, false with error set after a failure.
C36_LoadingFlags ==
  /\ isDownloading => isLoading
  /\ HookLoading => isLoading
  /\ ~HookLoading => (~isLoading /\ ~isDownloading)
  /\ (~HookLoading /\ outcome.op = "loadModel") =>
       IF outcome.ok THEN hookLoaded ELSE ~hookLoaded /\ hookError # ""

\* C33 as stated: however downloadModel and loadModel calls for one model
\* interleave, and whatever download failed or was interrupted before,
\* downloadModel returns the destination path, which loadModel then loads
\* from, only when the file there is the result of a download that ended
\* with status 200.
C33_ReturnedFileIsComplete == downloaded.ok => downloaded.file = "complete"

\* C34 as stated: when the destination file exists, downloadModel returns
\* its path with no download started and no progress reported, with or
\* without a remoteUrl; when the file does not exist and there is no
\* remoteUrl, it fails.
C34_DownloadIdempotent ==
  LET call == downloaded.call
  IN /\ call.existed =>
          /\ downloaded.ok
          /\ downloaded.path = downloadDest(call)
          /\ downloaded.file # "absent"
          /\ ~call.started /\ ~call.progressed
     /\ (call # NoDownload /\ ~call.existed /\ call.remoteUrl = "") =>
          /\ ~downloaded.ok
          /\ downloaded.error \in {ErrRemoteUrl, ErrNative}
          /\ ~call.started /\ ~call.progressed

\* A call without remoteUrl has returned the path of a file that existed.
C34_Witness ==
  /\ downloaded.ok /\ downloaded.call.existed /\ downloaded.call.remoteUrl = ""
  /\ downloaded.path = getModelPath("m1", "gguf")

\* C39: getModelPath names the file downloadModel writes, so the model exists
\* when downloadModel has returned; when deleteModel has returned the model
\* does not exist, and when there was no file to delete it returns and
\* leaves the files as they were; when clearAllModels has returned the models
\* directory exists and holds no file (getDownloadedModels lists none).
DeletedModel == uresult'.call.op = "deleteModel" /\ uresult'.ok
ClearedModels == uresult'.call.op = "clearAllModels" /\ uresult'.ok
C39_StorageAgrees ==
  [][ (\A config \in DownloadConfigs :
         getModelPath(config.id, config.format) = downloadDest(config))
      /\ (downloaded'.ok =>
            getModelPath(downloaded'.call.id, downloaded'.call.format) \in DOMAIN modelFiles')
      /\ (DeletedModel =>
            getModelPath(uresult'.call.id, uresult'.call.format) \notin DOMAIN modelFiles')
      /\ ((uresult'.call.op = "deleteModel" /\ ~uresult'.call.before) =>
            (uresult'.ok /\ UNCHANGED fileVars))
      /\ (ClearedModels => (modelsDir' /\ DOMAIN modelFiles' = {})) ]_vars


\* C35: a progress event of a model calls the callback of every registration
\* for that model whose unsubscribe has not been called, once for each, and
\* no other callback; the unsubscribe of a registration removes that
\* registration alone, and a second call of it removes nothing.
Count(listeners, callback) ==
  Cardinality({i \in 1..Len(listeners) : listeners[i] = callback})
Subscribed(regs, modelId, callback) ==
  {r \in 1..Len(regs) : /\ regs[r].modelId = modelId
                        /\ regs[r].callback = callback
                        /\ regs[r].unsubscribed = 0}
C35_ListenersNotified ==
  /\ \A modelId \in ModelIds : \A callback \in Callbacks :
       Count(downloadListeners[modelId], callback) =
         Cardinality(Subscribed(registrations, modelId, callback))
  /\ notified # NoNotified =>
       \A callback \in Callbacks :
         /\ Cardinality(Subscribed(registrations, notified.modelId, callback))
              <= Count(notified.calls, callback)
         /\ Count(notified.calls, callback)
              <= Cardinality(Subscribed(notified.before, notified.modelId, callback))

====
